---- MODULE Spec2Model ----
(***************************************************************************)
(* Broadcom Kona system timer (drivers/clocksource/bcm_kona_timer.c).      *)
(*                                                                         *)
(* The model follows the driver function by function.  Every memory-mapped *)
(* register access of a function is one step of the CPU that executes it   *)
(* (pc/lv hold the position and the C locals), the hardware moves between  *)
(* those steps (HwTick, HwMatch), and kona_timer_init is one step because  *)
(* it runs once per device node, single-threaded, at boot.                 *)
(***************************************************************************)
EXTENDS Integers, Sequences, FiniteSets, TLC

\* ------------------------------------------------------------ constants
KONA_GPTIMER_STCS_OFFSET == 0
KONA_GPTIMER_STCLO_OFFSET == 4
KONA_GPTIMER_STCHI_OFFSET == 8
KONA_GPTIMER_STCM0_OFFSET == 12

KONA_GPTIMER_STCS_TIMER_MATCH_SHIFT == 0
KONA_GPTIMER_STCS_TIMER_MATCH_MASK == 4
KONA_GPTIMER_STCS_COMPARE_ENABLE_SHIFT == 4
KONA_GPTIMER_STCS_COMPARE_ENABLE_SYNC_SHIFT == 8
KONA_GPTIMER_STCS_STCM0_SYNC_SHIFT == 12

MAX_NUM_TIMERS == 3
MAX_NUM_CHANNELS == 4

\* loop_limit of the two sync waits and of the counter read
SYNC_LOOP_LIMIT == 1000
COUNTER_LOOP_LIMIT == 3

\* clockevents_config_and_register(..., 6, 0xffffffff): minimum delta in ticks
MIN_DELTA_TICKS == 6

\* enum irqreturn
IRQ_HANDLED == 1

\* errno values returned (negated) by the driver
ETIMEDOUT == 110
EINVAL == 22
ENODEV == 19
ENOMEM == 12

\* ------------------------------------------------------------ bounds
\* uint32_t arithmetic is modulo 2^32; the model keeps the wrap-around with
\* a smaller modulus for the counter words and the compare registers.
WordMod == 2048
\* the 64-bit counter never wraps in a run: its high word stays below MaxHi
MaxHi == 4
\* hardware counter advances observed in one run
MaxTicks == 5
\* CPUs (execution contexts; CPU k owns channel k of the local timer)
NumCpus == 2
\* device nodes probed in one run
MaxProbes == 4

Cpus == 0 .. (NumCpus - 1)
Bases == 0 .. (MaxProbes - 1)
Slots == 0 .. (MAX_NUM_TIMERS - 1)
Chans == 0 .. (MAX_NUM_CHANNELS - 1)
StcsBits == 0 .. (KONA_GPTIMER_STCS_STCM0_SYNC_SHIFT + MAX_NUM_CHANNELS - 1)

\* ------------------------------------------------------------ 32-bit words
BitSet(v) == {i \in StcsBits : (v \div (2 ^ i)) % 2 = 1}

\* the word whose set bits are S
SumPowOf[S \in SUBSET StcsBits] ==
    IF S = {} THEN 0
    ELSE LET i == CHOOSE x \in S : TRUE IN (2 ^ i) + SumPowOf[S \ {i}]

SumPow(S) == SumPowOf[S]

\* a & b, a | b, a & ~m, 1 << n, (reg & (1 << n)) >> n
\* (the operands are bound once, as x and y, before their bits are taken)
BitAnd(a, b) ==
    SumPow(UNION {BitSet(x) \cap BitSet(y) : x \in {a}, y \in {b}})
BitOr(a, b) ==
    SumPow(UNION {BitSet(x) \cup BitSet(y) : x \in {a}, y \in {b}})
BitAndNot(a, m) ==
    SumPow(UNION {BitSet(x) \ BitSet(y) : x \in {a}, y \in {m}})
Shl1(n) == 2 ^ n
BitAt(reg, n) == (reg \div (2 ^ n)) % 2

\* uint32_t addition
AddU32(a, b) == (a + b) % WordMod

\* ------------------------------------------------------------ state
VARIABLES
    timers,          \* static struct kona_bcm_timer *timers[MAX_NUM_TIMERS]
    num_timers,      \* static int num_timers
    local_timer,     \* static int local_timer
    irqs,            \* handlers bound by request_irq: {[base, line, t, i]}
    hp,              \* cpuhp callbacks installed
    clocksrc,        \* slots whose clocksource is registered
    sched,           \* sched_clock_register was called
    online,          \* CPUs whose kona_timer_cpu_start has run
    irq_off,         \* interrupts disabled by disable_percpu_irq
    hw,              \* register block of every device node
    ticks,           \* advances of the hardware counters so far
    kona_timer_lock, \* holder of the spinlock (a CPU) or -1
    pc,              \* position of every CPU
    lv,              \* C locals of every CPU
    probe,           \* last kona_timer_init call: its number, result, the
                     \* registry it started from, whether its node was
                     \* valid, how many earlier calls had a valid node, and
                     \* whether the registry is still as the call left it
    gc,              \* register reads of the running/last kona_timer_get_counter
    rets,            \* per register block: the last value returned by the
                     \* current-time reads, and whether no value returned
                     \* so far was below the one returned before it
    lastw,           \* the last write of the status register by the driver
    waits,           \* the last sync wait: what it waited for and its polls
    opw,             \* lock acquisitions (off -1) and bus writes of the
                     \* running/last driver call, in order, per CPU
    pre,             \* register block at entry of that call, per CPU
    cbs,             \* event_handler invocations of the running/last
                     \* kona_timer_interrupt, per CPU
    shut             \* the registers as a kona_timer_shutdown that the
                     \* hardware did not disturb left them, while nothing
                     \* but such a shutdown of the same channel has touched
                     \* them since; n counts these shutdowns

registry == <<timers, num_timers, local_timer, irqs, hp, clocksrc, sched,
              online, irq_off>>
ghost == <<probe, gc, rets, lastw, waits, opw, pre, cbs, shut>>
vars == <<timers, num_timers, local_timer, irqs, hp, clocksrc, sched,
          online, irq_off, hw,
          ticks, kona_timer_lock, pc, lv, probe, gc, rets, lastw, waits, opw, pre,
          cbs, shut>>

\* ------------------------------------------------------------ structures
\* struct kona_bcm_timer_channel, zeroed by kzalloc
ZeroChannel ==
    [timer_id |-> 0, id |-> 0, irq |-> 0,
     has_clockevent |-> FALSE, event_handler |-> FALSE, cpu |-> -1]

\* struct kona_bcm_timer, zeroed by kzalloc.  ptr tells what the registry
\* slot points to: nothing ("null"), an allocated timer ("live") or a timer
\* that was handed to kfree ("freed").  base -1 is a NULL base.
ZeroTimer ==
    [ptr |-> "live", id |-> 0, rate |-> 0, base |-> -1,
     is_initialized |-> FALSE, has_clocksource |-> FALSE,
     is_gptimer |-> FALSE,
     channels |-> [i \in Chans |-> ZeroChannel], num_channels |-> 0]

NullTimer == [ZeroTimer EXCEPT !.ptr = "null"]

\* Linux interrupt number of hardware channel i of the node mapped at base
\* (irq_of_parse_and_map); 0 is "no interrupt".
IrqOf(base, i) == 1 + base * MAX_NUM_CHANNELS + i

\* The registry as one value: the file-scope variables of the driver and
\* what the driver has registered with the kernel.
Registry ==
    [timers |-> timers, num_timers |-> num_timers,
     local_timer |-> local_timer, irqs |-> irqs, hp |-> hp,
     clocksrc |-> clocksrc, sched |-> sched]

EmptyRegistry ==
    [timers |-> [s \in Slots |-> NullTimer], num_timers |-> 0,
     local_timer |-> -1, irqs |-> {}, hp |-> FALSE, clocksrc |-> {},
     sched |-> FALSE]

\* ------------------------------------------------------------ hardware
\* One register block: the status register, the four compare registers and
\* the free-running counter.
ResetBlock ==
    [stcs |-> 0, stcm |-> [i \in Chans |-> 0], hi |-> 0, lo |-> 0]

MatchBit(ch) == KONA_GPTIMER_STCS_TIMER_MATCH_SHIFT + ch
EnableBit(ch) == KONA_GPTIMER_STCS_COMPARE_ENABLE_SHIFT + ch
EnableSyncBit(ch) == KONA_GPTIMER_STCS_COMPARE_ENABLE_SYNC_SHIFT + ch
ValSyncBit(ch) == KONA_GPTIMER_STCS_STCM0_SYNC_SHIFT + ch

AllMatch == SumPow({MatchBit(ch) : ch \in Chans})
AllEnable == SumPow({EnableBit(ch) : ch \in Chans})

\* What a write of val does to a status register holding old.  A match bit
\* is an interrupt flag that the driver clears by writing 1 to it ("Clear
\* compare (0) interrupt": reg |= 1 << (MATCH_SHIFT + ch)); the compare
\* enable bits are stored; the sync bits are driven by the hardware only.
HwStcsWrite(old, val) ==
    LET match == BitAndNot(BitAnd(old, AllMatch), val)
        enable == BitAnd(val, AllEnable)
        sync == BitAndNot(BitAndNot(old, AllMatch), AllEnable)
    IN BitOr(BitOr(match, enable), sync)

\* readl(base + off)
Readl(blk, off) ==
    IF off = KONA_GPTIMER_STCS_OFFSET THEN blk.stcs
    ELSE IF off = KONA_GPTIMER_STCLO_OFFSET THEN blk.lo
    ELSE IF off = KONA_GPTIMER_STCHI_OFFSET THEN blk.hi
    ELSE blk.stcm[(off - KONA_GPTIMER_STCM0_OFFSET) \div 4]

\* writel(val, base + off); the counter words are read-only
Writel(blk, val, off) ==
    IF off = KONA_GPTIMER_STCS_OFFSET
    THEN [blk EXCEPT !.stcs = HwStcsWrite(blk.stcs, val)]
    ELSE IF off >= KONA_GPTIMER_STCM0_OFFSET
    THEN [blk EXCEPT
            !.stcm[(off - KONA_GPTIMER_STCM0_OFFSET) \div 4] = val]
    ELSE blk

\* The free-running counter advances by d ticks.
Advance(blk, d) ==
    LET v == blk.hi * WordMod + blk.lo + d
    IN [blk EXCEPT !.hi = v \div WordMod, !.lo = v % WordMod]

\* ------------------------------------------------------------ kona_timer_init
\* A device node as the probe sees it: the register block it maps (-1: the
\* mapping fails), the "brcm,is-gptimer" property, of_irq_count, whether a
\* clock is found, whether the "clock-frequency" property is present, the
\* channel whose request_irq fails (-1: none) and whether kzalloc succeeds.
\* freq is the local `u32 freq` after of_property_read_u32: the property's
\* value when it is present; the local is declared without an initialiser
\* and the call stores nothing when the property is absent, so it then holds
\* whatever the stack held, zero or not.
ClkRate == 32768

Nodes(b) ==
    [base : {b, -1}, gpt : BOOLEAN, irq_count : {0, 1, MAX_NUM_CHANNELS, MAX_NUM_CHANNELS + 1},
     clk : BOOLEAN, prop : BOOLEAN, freq : {0, ClkRate},
     irq_fail : {-1, 0, 2}, alloc : BOOLEAN]

\* variant: the capacity test written as num_timers > MAX_NUM_TIMERS
TimersFullLate(n) == n > MAX_NUM_TIMERS

\* if ((num_timers + 1) >= MAX_NUM_TIMERS)
TimersFull(n) == (n + 1) >= MAX_NUM_TIMERS

\* variant: the interrupt count is taken as it is
CapChannelsNone(n) == n

\* timer->num_channels after the cap at MAX_NUM_CHANNELS
CapChannels(n) == IF n > MAX_NUM_CHANNELS THEN MAX_NUM_CHANNELS ELSE n

\* variant: the owner of every channel is recorded as slot 0
InitChannelsSlot0(t, slot, n) ==
    [i \in Chans |->
        IF i < n
        THEN [t.channels[i] EXCEPT
                !.id = i, !.timer_id = 0, !.irq = IrqOf(t.base, i)]
        ELSE t.channels[i]]

\* channels[0 .. n-1] as the request_irq loop leaves them
InitChannels(t, slot, n) ==
    [i \in Chans |->
        IF i < n
        THEN [t.channels[i] EXCEPT
                !.id = i, !.timer_id = slot, !.irq = IrqOf(t.base, i)]
        ELSE t.channels[i]]

\* err_free_irqs: while (i != 0) { i--; free_irq(channels[i].irq, ...); }
FreeIrqs(channels, i) == [k \in 1 .. i |-> channels[i - k].irq]

\* kona_timer_init(node) on registry R: the registry it leaves, its return
\* value, the channel whose request_irq failed (-1: none) and the interrupts
\* handed to free_irq, in the order of the calls.
kona_timer_init(R, node) ==
    LET slot == R.num_timers
        nch == CapChannels(node.irq_count)
        t0 == [ZeroTimer EXCEPT
                 !.id = slot,
                 !.rate = IF node.clk
                          THEN (IF node.freq # 0 THEN node.freq ELSE ClkRate)
                          ELSE node.freq,
                 !.base = node.base,
                 !.is_gptimer = node.gpt,
                 !.num_channels = nch]
        fails == node.irq_fail >= 0 /\ node.irq_fail < nch
    IN
    IF TimersFull(R.num_timers) THEN [reg |-> R, ret |-> -EINVAL, failed |-> -1, freed |-> <<>>]
    ELSE IF ~node.alloc THEN [reg |-> R, ret |-> -ENOMEM, failed |-> -1, freed |-> <<>>]
    ELSE IF ~node.clk /\ node.freq = 0 THEN [reg |-> R, ret |-> -EINVAL, failed |-> -1, freed |-> <<>>]
    ELSE IF node.base = -1 THEN [reg |-> R, ret |-> -EINVAL, failed |-> -1, freed |-> <<>>]
    ELSE IF node.irq_count = 0 THEN [reg |-> R, ret |-> -EINVAL, failed |-> -1, freed |-> <<>>]
    ELSE IF node.gpt
    THEN \* kona_timer_clocksource_init(timer); goto out
         [reg |-> [R EXCEPT
                     !.timers[slot] =
                         [t0 EXCEPT !.has_clocksource = TRUE,
                                    !.is_initialized = TRUE],
                     !.clocksrc = R.clocksrc \cup {slot},
                     !.sched = TRUE,
                     !.num_timers = R.num_timers + 1],
          ret |-> 0, failed |-> -1, freed |-> <<>>]
    ELSE IF fails
    THEN \* err_free_irqs, err_free_timer: the interrupts bound so far are
         \* freed and the timer is freed; timers[num_timers] keeps pointing
         \* to it
         [reg |-> [R EXCEPT
                     !.timers[slot] =
                         [t0 EXCEPT
                            !.ptr = "freed",
                            !.channels =
                                InitChannels(t0, slot, node.irq_fail + 1)]],
          ret |-> -EINVAL,
          failed |-> node.irq_fail,
          freed |-> FreeIrqs(InitChannels(t0, slot, node.irq_fail + 1),
                             node.irq_fail)]
    ELSE [reg |-> [R EXCEPT
                     !.timers[slot] =
                         [t0 EXCEPT
                            !.channels = InitChannels(t0, slot, nch),
                            !.is_initialized = TRUE],
                     !.irqs = R.irqs \cup
                         {[irq |-> IrqOf(node.base, i), t |-> slot, i |-> i] :
                             i \in 0 .. (nch - 1)},
                     !.local_timer = slot,
                     !.hp = TRUE,
                     !.num_timers = R.num_timers + 1],
          ret |-> 0, failed |-> -1, freed |-> <<>>]

\* kona_timer_init(node) on registry R gets as far as the interrupt count
\* and logs "too many interrupts provided, capping out at 4"
Capped(R, node) ==
    /\ ~TimersFull(R.num_timers)
    /\ node.alloc
    /\ node.clk \/ node.freq # 0
    /\ node.base # -1
    /\ node.irq_count > MAX_NUM_CHANNELS

\* a node with no clock-rate source: of_clk_get_by_name finds no clock and
\* there is no "clock-frequency" property
NoRateSource(node) == ~node.clk /\ ~node.prop

\* a node that kona_timer_init finds no fault with: memory, a clock or a
\* non-zero "clock-frequency", a register mapping, at least one interrupt,
\* and every request_irq succeeds
NodeValid(node) ==
    /\ node.alloc
    /\ node.clk \/ (node.prop /\ node.freq # 0)
    /\ node.base # -1
    /\ node.irq_count > 0
    /\ node.gpt \/ node.irq_fail < 0
          \/ node.irq_fail >= CapChannels(node.irq_count)

\* The kernel probes the next device node.
Probe ==
    /\ probe.n < MaxProbes
    /\ \A c \in Cpus : pc[c] = "idle"
    /\ \E node \in Nodes(probe.n) :
         \E r \in {kona_timer_init(Registry, node)} :
            /\ timers' = r.reg.timers
            /\ num_timers' = r.reg.num_timers
            /\ local_timer' = r.reg.local_timer
            /\ irqs' = r.reg.irqs
            /\ hp' = r.reg.hp
            /\ clocksrc' = r.reg.clocksrc
            /\ sched' = r.reg.sched
            /\ probe' = [n |-> probe.n + 1, ret |-> r.ret,
                         before |-> Registry,
                         earlier |-> probe.earlier + probe.valid,
                         valid |-> IF NodeValid(node) THEN 1 ELSE 0,
                         fresh |-> TRUE,
                         failed |-> r.failed, freed |-> r.freed,
                         no_rate |-> NoRateSource(node),
                         no_irq |-> (node.irq_count = 0),
                         capped |-> Capped(Registry, node),
                         hist |-> probe.hist]
    /\ UNCHANGED <<online, irq_off, hw, ticks, kona_timer_lock, pc, lv, gc,
                   rets, lastw, waits, opw, pre, cbs, shut>>

\* ------------------------------------------------------------ CPUs
\* C locals of a CPU outside the driver.  stack holds the context an
\* interrupt has suspended on this CPU (empty: none), hit counts the
\* interrupts taken during the current call.
IdleLocals ==
    [op |-> "none", t |-> 0, i |-> 0, clc |-> 0, base |-> 0, ch |-> 0,
     msw |-> 0, lsw |-> 0, reg |-> 0, loop_limit |-> 0, ret |-> 0,
     nest |-> FALSE, stack |-> <<>>, hit |-> 0, late |-> <<>>,
     ctx |-> "ok"]

NoReads == [reads |-> 0, attempts |-> 0, changed |-> 0, hiAtLo |-> -1,
            h2 |-> -1]
NoWrite == [fn |-> "none", ch |-> 0, before |-> 0, val |-> 0, after |-> 0]
NoWait == [fn |-> "none", ch |-> 0, target |-> 0, polls |-> 0,
           loop_limit |-> 0, at |-> 0, done |-> TRUE]

\* The history variables (gc, pre, opw, cbs, lastw, waits, shut) are kept in the
\* specifications whose claims read them, and stay at their reset values
\* in the others: probe.hist is set once, by the initial condition.
Keep(v, reset) == IF probe.hist THEN v ELSE reset

\* if (!loop_limit) pr_err("... sync timed out"): the waits of a call that
\* ran out of polls, in the order they were made
Late(l, r, fn) ==
    IF r.loop_limit # 0 THEN l.late ELSE Keep(Append(l.late, fn), <<>>)

\* variant: a wait that timed out makes the caller leave without the
\* status write
AfterSyncAbort(r, next, out) == IF r.loop_limit # 0 THEN next ELSE out

\* the waits return void: the caller goes on to its next statement whether
\* the wait saw its bit or ran out of polls
AfterSync(r, next, out) == next

\* channel->timer_id resolved through the registry: channel_to_timer
channel_to_timer(channel) == timers[channel.timer_id]

\* A sequential caller: no other CPU is inside the driver.
Sequential(c) == \A d \in Cpus : pc[d] = "idle"

\* ------------------------------------------------------------ hardware steps
\* The counter advances, by one tick or by one wrap of the low word.  The
\* counter is only read by kona_timer_get_counter, so advances are taken
\* while some CPU is reading that block.
HwTick(b, D, max) ==
    /\ \E c \in Cpus : pc[c] \in {"gc_hi1", "gc_lo", "gc_hi2"}
                       /\ lv[c].base = b
    /\ ticks < max
    /\ \E d \in D :
         /\ Advance(hw[b], d).hi <= MaxHi
         /\ hw' = [hw EXCEPT ![b] = Advance(hw[b], d)]
    /\ ticks' = ticks + 1
    /\ UNCHANGED <<registry, kona_timer_lock, pc, lv, ghost>>

\* ------------------------------------------------------------ kona_timer_get_counter
\* variant: the pass leaves the loop without comparing the high words
GcStepNoCompare(msw, h2, loop_limit) ==
    [brk |-> TRUE, loop_limit |-> loop_limit]

\* One pass of the do-while after its third read: break when the high word
\* read again equals msw, else --loop_limit.
GcStep(msw, h2, loop_limit) ==
    IF msw = h2
    THEN [brk |-> TRUE, loop_limit |-> loop_limit]
    ELSE [brk |-> FALSE, loop_limit |-> loop_limit - 1]

\* variant: the exhausted loop is tested as loop_limit < 0
GcRetNegative(loop_limit) == IF loop_limit < 0 THEN -ETIMEDOUT ELSE 0

\* if (!loop_limit) return -ETIMEDOUT; return 0;
GcRet(loop_limit) == IF loop_limit = 0 THEN -ETIMEDOUT ELSE 0

\* where the caller of kona_timer_get_counter continues
AfterGc(l) == IF l.op \in {"csr", "sched"} THEN "rd_ret" ELSE "sne_chk"

\* *msw = readl(timer_base + KONA_GPTIMER_STCHI_OFFSET)
GcHi1(c) ==
    /\ pc[c] = "gc_hi1"
    /\ lv' = [lv EXCEPT ![c].msw =
                Readl(hw[lv[c].base], KONA_GPTIMER_STCHI_OFFSET)]
    /\ gc' = Keep([gc EXCEPT ![c].reads = @ + 1, ![c].attempts = @ + 1],
                  gc)
    /\ pc' = [pc EXCEPT ![c] = "gc_lo"]
    /\ UNCHANGED <<registry, hw, ticks, kona_timer_lock, probe, rets, lastw, waits,
                   opw, pre, cbs, shut>>

\* *lsw = readl(timer_base + KONA_GPTIMER_STCLO_OFFSET)
GcLo(c) ==
    /\ pc[c] = "gc_lo"
    /\ lv' = [lv EXCEPT ![c].lsw =
                Readl(hw[lv[c].base], KONA_GPTIMER_STCLO_OFFSET)]
    /\ gc' = Keep([gc EXCEPT ![c].reads = @ + 1,
                             ![c].hiAtLo = hw[lv[c].base].hi], gc)
    /\ pc' = [pc EXCEPT ![c] = "gc_hi2"]
    /\ UNCHANGED <<registry, hw, ticks, kona_timer_lock, probe, rets, lastw, waits,
                   opw, pre, cbs, shut>>

\* if (*msw == readl(timer_base + KONA_GPTIMER_STCHI_OFFSET)) break;
\* } while (--loop_limit); and the return
GcHi2(c) ==
    /\ pc[c] = "gc_hi2"
    /\ LET h2 == Readl(hw[lv[c].base], KONA_GPTIMER_STCHI_OFFSET)
           s == GcStep(lv[c].msw, h2, lv[c].loop_limit)
       IN /\ gc' = Keep([gc EXCEPT ![c].reads = @ + 1, ![c].h2 = h2,
                                   ![c].changed =
                                       IF lv[c].msw = h2 THEN @ ELSE @ + 1],
                        gc)
          /\ IF ~s.brk /\ s.loop_limit # 0
             THEN /\ lv' = [lv EXCEPT ![c].loop_limit = s.loop_limit]
                  /\ pc' = [pc EXCEPT ![c] = "gc_hi1"]
             ELSE /\ lv' = [lv EXCEPT ![c].loop_limit = s.loop_limit,
                                      ![c].ret = GcRet(s.loop_limit)]
                  /\ pc' = [pc EXCEPT ![c] = AfterGc(lv[c])]
    /\ UNCHANGED <<registry, hw, ticks, kona_timer_lock, probe, rets, lastw, waits,
                   opw, pre, cbs, shut>>

\* ------------------------------------------------------------ current-time reads
\* kona_timer_clocksrc_read(src): the timer is the one that holds src
CallClocksrcRead(c, t) ==
    /\ pc[c] = "idle" /\ Sequential(c)
    /\ t \in clocksrc
    /\ lv' = [lv EXCEPT ![c] =
                [IdleLocals EXCEPT !.op = "csr", !.t = t,
                                   !.base = timers[t].base,
                                   !.loop_limit = COUNTER_LOOP_LIMIT]]
    /\ gc' = [gc EXCEPT ![c] = NoReads]
    /\ pc' = [pc EXCEPT ![c] = "gc_hi1"]
    /\ UNCHANGED <<registry, hw, ticks, kona_timer_lock, probe, rets, lastw, waits,
                   opw, pre, cbs, shut>>

\* kona_read_sched_clock(): reads timers[0]->base
CallSchedClock(c) ==
    /\ pc[c] = "idle" /\ Sequential(c)
    /\ sched
    /\ lv' = [lv EXCEPT ![c] =
                [IdleLocals EXCEPT !.op = "sched", !.t = 0,
                                   !.base = timers[0].base,
                                   !.loop_limit = COUNTER_LOOP_LIMIT]]
    /\ gc' = [gc EXCEPT ![c] = NoReads]
    /\ pc' = [pc EXCEPT ![c] = "gc_hi1"]
    /\ UNCHANGED <<registry, hw, ticks, kona_timer_lock, probe, rets, lastw, waits,
                   opw, pre, cbs, shut>>

\* variant: the words combined the other way round
CounterValueSwapped(msw, lsw) == lsw * WordMod + msw

\* return ((u64)msw << 32) + lsw; the result of kona_timer_get_counter is
\* not looked at
CounterValue(msw, lsw) == msw * WordMod + lsw

RdRet(c) ==
    /\ pc[c] = "rd_ret"
    /\ rets' = [rets EXCEPT ![lv[c].base] =
                  [cur |-> CounterValue(lv[c].msw, lv[c].lsw),
                   mono |-> @.mono
                            /\ CounterValue(lv[c].msw, lv[c].lsw) >= @.cur]]
    /\ pc' = [pc EXCEPT ![c] = "done"]
    /\ UNCHANGED <<registry, hw, ticks, kona_timer_lock, lv, probe, gc, lastw,
                   waits, opw, pre, cbs, shut>>

\* The call returns to the kernel.
Return(c) ==
    /\ pc[c] = "done"
    /\ lv[c].stack = <<>>
    /\ pc' = [pc EXCEPT ![c] = "idle"]
    /\ lv' = [lv EXCEPT ![c] = IdleLocals]
    /\ gc' = [gc EXCEPT ![c] = NoReads]
    /\ opw' = [opw EXCEPT ![c] = <<>>]
    /\ pre' = [pre EXCEPT ![c] = ResetBlock]
    /\ cbs' = [cbs EXCEPT ![c] = 0]
    /\ lastw' = NoWrite
    /\ waits' = NoWait
    /\ UNCHANGED <<registry, hw, ticks, kona_timer_lock, probe, rets, shut>>

\* ------------------------------------------------------------ sync waits
\* The status register as the n-th poll of a wait reads it, when the
\* hardware brings the awaited bit to target at poll number at (at beyond
\* the loop limit: not while the wait lasts).
StcsAtPoll(stcs, bit, target, n, at) ==
    LET v == IF n >= at THEN target ELSE 1 - target
    IN stcs - BitAt(stcs, bit) * (2 ^ bit) + v * (2 ^ bit)

\* the moments the hardware may bring a sync bit to the awaited value
SyncAt == {1, 2, SYNC_LOOP_LIMIT, SYNC_LOOP_LIMIT + 1}

\* A wait before its first pass: int loop_limit = 1000, nothing read yet.
WaitStart ==
    [loop_limit |-> SYNC_LOOP_LIMIT, polls |-> 0, reg |-> 0, done |-> FALSE]

\* variant: the loop test written as loop_limit--
ValSyncPassPost(st, stcs, ch_num, at) ==
    LET reg == StcsAtPoll(stcs, ValSyncBit(ch_num), 1, st.polls + 1, at)
    IN IF BitAt(reg, KONA_GPTIMER_STCS_STCM0_SYNC_SHIFT + ch_num) # 0
       THEN [loop_limit |-> st.loop_limit, polls |-> st.polls + 1,
             reg |-> reg, done |-> TRUE]
       ELSE [loop_limit |-> st.loop_limit - 1, polls |-> st.polls + 1,
             reg |-> reg, done |-> (st.loop_limit = 0)]

\* One pass of the do-while of kona_wait_for_compare_val_sync(base, ch_num):
\* reg = readl(base + STCS_OFFSET); if (reg & (1 << (STCM0_SYNC_SHIFT +
\* ch_num))) break; and the loop test --loop_limit.  done: the loop is left.
ValSyncPass(st, stcs, ch_num, at) ==
    LET reg == StcsAtPoll(stcs, ValSyncBit(ch_num), 1, st.polls + 1, at)
    IN IF BitAt(reg, KONA_GPTIMER_STCS_STCM0_SYNC_SHIFT + ch_num) # 0
       THEN [loop_limit |-> st.loop_limit, polls |-> st.polls + 1,
             reg |-> reg, done |-> TRUE]
       ELSE [loop_limit |-> st.loop_limit - 1, polls |-> st.polls + 1,
             reg |-> reg, done |-> (st.loop_limit - 1 = 0)]

\* One pass of the do-while of kona_wait_for_compare_enable_sync(base,
\* ch_num, target): if (((reg & (1 << shift)) >> shift) == target) break;
EnableSyncPass(st, stcs, ch_num, target, at) ==
    LET shift == KONA_GPTIMER_STCS_COMPARE_ENABLE_SYNC_SHIFT + ch_num
        reg == StcsAtPoll(stcs, shift, target, st.polls + 1, at)
    IN IF BitAt(reg, shift) = target
       THEN [loop_limit |-> st.loop_limit, polls |-> st.polls + 1,
             reg |-> reg, done |-> TRUE]
       ELSE [loop_limit |-> st.loop_limit - 1, polls |-> st.polls + 1,
             reg |-> reg, done |-> (st.loop_limit - 1 = 0)]

\* The do-while run for up to k passes, pass after pass until the loop is
\* left (the passes are split in halves to keep the evaluation shallow).
RECURSIVE ValSyncLoop(_, _, _, _, _)
ValSyncLoop(st, k, stcs, ch_num, at) ==
    IF st.done \/ k = 0 THEN st
    ELSE IF k = 1 THEN ValSyncPass(st, stcs, ch_num, at)
    ELSE ValSyncLoop(ValSyncLoop(st, k \div 2, stcs, ch_num, at),
                     k - (k \div 2), stcs, ch_num, at)

RECURSIVE EnableSyncLoop(_, _, _, _, _, _)
EnableSyncLoop(st, k, stcs, ch_num, target, at) ==
    IF st.done \/ k = 0 THEN st
    ELSE IF k = 1 THEN EnableSyncPass(st, stcs, ch_num, target, at)
    ELSE EnableSyncLoop(EnableSyncLoop(st, k \div 2, stcs, ch_num, target, at),
                        k - (k \div 2), stcs, ch_num, target, at)

\* passes evaluated at most: more than either loop can make
PassBudget == 2 * SYNC_LOOP_LIMIT

kona_wait_for_compare_val_sync(stcs, ch_num, at) ==
    ValSyncLoop(WaitStart, PassBudget, stcs, ch_num, at)

kona_wait_for_compare_enable_sync(stcs, ch_num, target, at) ==
    EnableSyncLoop(WaitStart, PassBudget, stcs, ch_num, target, at)

\* the values the status register holds: match and enable bits of the
\* channels that have a clockevent (one per CPU)
StcsValues ==
    {SumPow(S) : S \in SUBSET ({MatchBit(ch) : ch \in Cpus}
                                \cup {EnableBit(ch) : ch \in Cpus})}

\* the outcomes of the two waits, evaluated once for every call
ValSyncOutcome ==
    [k \in StcsValues \X Chans \X SyncAt |->
        kona_wait_for_compare_val_sync(k[1], k[2], k[3])] @@ << >>

EnableSyncOutcome ==
    [k \in StcsValues \X Chans \X {0, 1} \X SyncAt |->
        kona_wait_for_compare_enable_sync(k[1], k[2], k[3], k[4])] @@ << >>

\* ------------------------------------------------------------ status values
\* variant: the compare of every channel is enabled
SneStcsEnableAll(reg, id) ==
    BitOr(BitOr(BitAndNot(reg, KONA_GPTIMER_STCS_TIMER_MATCH_MASK),
                Shl1(KONA_GPTIMER_STCS_TIMER_MATCH_SHIFT + id)),
          AllEnable)

\* kona_timer_set_next_event: reg &= ~MATCH_MASK; reg |= 1 << (MATCH_SHIFT +
\* id); reg |= 1 << (COMPARE_ENABLE_SHIFT + id)
SneStcsValue(reg, id) ==
    BitOr(BitOr(BitAndNot(reg, KONA_GPTIMER_STCS_TIMER_MATCH_MASK),
                Shl1(KONA_GPTIMER_STCS_TIMER_MATCH_SHIFT + id)),
          Shl1(KONA_GPTIMER_STCS_COMPARE_ENABLE_SHIFT + id))

\* variant: the compare enable bit is left as read
DcStcsKeepEnable(reg, ch_num) ==
    BitOr(BitAndNot(reg, KONA_GPTIMER_STCS_TIMER_MATCH_MASK),
          Shl1(KONA_GPTIMER_STCS_TIMER_MATCH_SHIFT + ch_num))

\* variant: the compare enable bit is inverted
DcStcsToggle(reg, ch_num) ==
    IF BitAt(reg, KONA_GPTIMER_STCS_COMPARE_ENABLE_SHIFT + ch_num) = 1
    THEN BitAndNot(DcStcsKeepEnable(reg, ch_num),
                   Shl1(KONA_GPTIMER_STCS_COMPARE_ENABLE_SHIFT + ch_num))
    ELSE BitOr(DcStcsKeepEnable(reg, ch_num),
               Shl1(KONA_GPTIMER_STCS_COMPARE_ENABLE_SHIFT + ch_num))

\* kona_timer_disable_and_clear: reg &= ~MATCH_MASK; reg |= 1 << (MATCH_SHIFT
\* + ch_num); reg &= ~(1 << (COMPARE_ENABLE_SHIFT + ch_num))
DcStcsValue(reg, ch_num) ==
    BitAndNot(BitOr(BitAndNot(reg, KONA_GPTIMER_STCS_TIMER_MATCH_MASK),
                    Shl1(KONA_GPTIMER_STCS_TIMER_MATCH_SHIFT + ch_num)),
              Shl1(KONA_GPTIMER_STCS_COMPARE_ENABLE_SHIFT + ch_num))

\* variant: compare registers one byte apart
StcmOffsetPacked(id) == KONA_GPTIMER_STCM0_OFFSET + id

\* offset of the compare register of a channel
StcmOffset(id) == KONA_GPTIMER_STCM0_OFFSET + (id * 4)

\* ------------------------------------------------------------ shutdown record
NoShut == [n |-> 0, base |-> 0, ch |-> 0, stcs |-> 0,
           stcm |-> ResetBlock.stcm]

\* the record after the registers of block b were touched by something
\* other than a shutdown of the recorded channel
ShutTouched(b) == IF shut.n > 0 /\ shut.base = b THEN NoShut ELSE shut

\* the record after disable_and_clear wrote the status register of block b
\* for channel ch_num on behalf of op, leaving the block as new; quiet: the
\* hardware did not change the register between the read and the write
ShutAfterDcWrite(b, ch_num, op, new, quiet) ==
    IF op \notin {"shutdown", "cpu_stop"} \/ ~quiet THEN ShutTouched(b)
    ELSE IF shut.n > 0 /\ shut.base = b /\ shut.ch = ch_num
    THEN [shut EXCEPT !.n = 2]
    ELSE [n |-> 1, base |-> b, ch |-> ch_num, stcs |-> new.stcs,
          stcm |-> new.stcm]

\* ------------------------------------------------------------ kona_timer_set_next_event
\* entries of a CPU's log that are not register writes: taking
\* kona_timer_lock, and disable_percpu_irq
LockLog == -1
IrqOffLog == -2

\* deltas the clockevent core asks for: the configured minimum and maximum
Deltas == {MIN_DELTA_TICKS, WordMod - 1}

\* where kona_timer_set_next_event returns to: the event handler that
\* called it from the interrupt, or the kernel
AfterSne(l) == IF l.nest THEN "irq_ret" ELSE "done"

\* set_next_event(clc, evt) on the clockevent of channels[i] of the timer in
\* slot t, called on the CPU of its cpumask; the call starts with
\* kona_timer_get_counter
SetNextEventEntry(c, t, i, clc) ==
    /\ pc[c] = "idle"
    /\ c \in online
    /\ timers[t].ptr = "live"
    /\ timers[t].channels[i].has_clockevent
    /\ timers[t].channels[i].cpu = c
    /\ LET channel == timers[t].channels[i]
           timer == channel_to_timer(channel)
       IN /\ timer.ptr = "live"
          /\ lv' = [lv EXCEPT ![c] =
                      [IdleLocals EXCEPT
                         !.op = "sne", !.t = t, !.i = i, !.clc = clc,
                         !.base = timer.base, !.ch = channel.id,
                         !.loop_limit = COUNTER_LOOP_LIMIT]]
          /\ pre' = [pre EXCEPT ![c] = Keep(hw[timer.base], ResetBlock)]
    /\ gc' = [gc EXCEPT ![c] = NoReads]
    /\ opw' = [opw EXCEPT ![c] = <<>>]
    /\ pc' = [pc EXCEPT ![c] = "gc_hi1"]
    /\ UNCHANGED <<registry, hw, ticks, kona_timer_lock, probe, rets, lastw,
                   waits, cbs, shut>>

\* the call made while no other CPU is inside the driver
CallSetNextEvent(c, t, i, clc) ==
    Sequential(c) /\ SetNextEventEntry(c, t, i, clc)

\* variant: the result of the counter read is not looked at
SneChkIgnore(c) ==
    /\ pc[c] = "sne_chk"
    /\ pc' = [pc EXCEPT ![c] = "sne_lock"]
    /\ gc' = [gc EXCEPT ![c] = NoReads]
    /\ UNCHANGED <<registry, hw, ticks, kona_timer_lock, lv, probe, rets,
                   lastw, waits, opw, pre, cbs, shut>>

\* ret = kona_timer_get_counter(...); if (ret) return ret;
SneChk(c) ==
    /\ pc[c] = "sne_chk"
    /\ pc' = [pc EXCEPT ![c] =
                IF lv[c].ret # 0 THEN AfterSne(lv[c]) ELSE "sne_lock"]
    /\ gc' = [gc EXCEPT ![c] = NoReads]
    /\ UNCHANGED <<registry, hw, ticks, kona_timer_lock, lv, probe, rets,
                   lastw, waits, opw, pre, cbs, shut>>

\* variant: the lock does not exclude
SpinLockOpen(lock) == TRUE

\* spin_lock_irqsave returns once no CPU holds the lock
SpinLockFree(lock) == lock = -1

\* spin_lock_irqsave(&kona_timer_lock, flags)
SneLock(c) ==
    /\ pc[c] = "sne_lock"
    /\ SpinLockFree(kona_timer_lock)
    /\ kona_timer_lock' = c
    /\ opw' = [opw EXCEPT ![c] = Keep(Append(@, [off |-> LockLog, val |-> 0]), <<>>)]
    /\ pc' = [pc EXCEPT ![c] = "sne_wr_cmp"]
    /\ UNCHANGED <<registry, hw, ticks, lv, probe, gc, rets, lastw, waits,
                   pre, cbs, shut>>

\* writel(lsw + clc, timer->base + KONA_GPTIMER_STCM0_OFFSET + (id * 4))
SneWrCmp(c) ==
    /\ pc[c] = "sne_wr_cmp"
    /\ LET b == lv[c].base
           val == AddU32(lv[c].lsw, lv[c].clc)
           off == StcmOffset(lv[c].ch)
       IN /\ hw' = [hw EXCEPT ![b] = Writel(hw[b], val, off)]
          /\ opw' = [opw EXCEPT ![c] =
                       Keep(Append(@, [off |-> off, val |-> val]), <<>>)]
    /\ shut' = Keep(ShutTouched(lv[c].base), NoShut)
    /\ pc' = [pc EXCEPT ![c] = "sne_wait_val"]
    /\ UNCHANGED <<registry, ticks, kona_timer_lock, lv, probe, gc, rets,
                   lastw, waits, pre, cbs>>

\* kona_wait_for_compare_val_sync(timer->base, channel->id)
SneWaitVal(c) ==
    /\ pc[c] = "sne_wait_val"
    /\ \E at \in SyncAt :
         LET b == lv[c].base
             r == ValSyncOutcome[<<hw[b].stcs, lv[c].ch, at>>]
         IN /\ waits' = Keep([fn |-> "val", ch |-> lv[c].ch, target |-> 1,
                      polls |-> r.polls, loop_limit |-> r.loop_limit,
                      at |-> at,
                      done |-> r.done], NoWait)
            /\ lv' = [lv EXCEPT ![c].late = Late(lv[c], r, "val")]
            /\ pc' = [pc EXCEPT ![c] = AfterSync(r, "sne_rd", "sne_unlock")]
    /\ UNCHANGED <<registry, hw, ticks, kona_timer_lock, probe, gc, rets,
                   lastw, opw, pre, cbs, shut>>

\* reg = readl(timer->base + KONA_GPTIMER_STCS_OFFSET)
SneRd(c) ==
    /\ pc[c] = "sne_rd"
    /\ lv' = [lv EXCEPT ![c].reg =
                Readl(hw[lv[c].base], KONA_GPTIMER_STCS_OFFSET)]
    /\ pc' = [pc EXCEPT ![c] = "sne_wr"]
    /\ waits' = NoWait
    /\ UNCHANGED <<registry, hw, ticks, kona_timer_lock, probe, gc, rets,
                   lastw, opw, pre, cbs, shut>>

\* the three updates of reg and writel(reg, timer->base + STCS_OFFSET)
SneWr(c) ==
    /\ pc[c] = "sne_wr"
    /\ LET b == lv[c].base
           val == SneStcsValue(lv[c].reg, lv[c].ch)
           new == Writel(hw[b], val, KONA_GPTIMER_STCS_OFFSET)
       IN /\ hw' = [hw EXCEPT ![b] = new]
          /\ lv' = [lv EXCEPT ![c].reg = val]
          /\ opw' = [opw EXCEPT ![c] =
                       Keep(Append(@, [off |-> KONA_GPTIMER_STCS_OFFSET,
                                  val |-> val]), <<>>)]
          /\ lastw' = Keep([fn |-> "sne", ch |-> lv[c].ch,
                       before |-> hw[b].stcs, val |-> val,
                       after |-> new.stcs], NoWrite)
    /\ shut' = Keep(ShutTouched(lv[c].base), NoShut)
    /\ pc' = [pc EXCEPT ![c] = "sne_wait_en"]
    /\ UNCHANGED <<registry, ticks, kona_timer_lock, probe, gc, rets, waits,
                   pre, cbs>>

\* kona_wait_for_compare_enable_sync(timer->base, channel->id, 1)
SneWaitEn(c) ==
    /\ pc[c] = "sne_wait_en"
    /\ \E at \in SyncAt :
         LET b == lv[c].base
             r == EnableSyncOutcome[<<hw[b].stcs, lv[c].ch, 1, at>>]
         IN /\ waits' = Keep([fn |-> "enable", ch |-> lv[c].ch, target |-> 1,
                      polls |-> r.polls, loop_limit |-> r.loop_limit,
                      at |-> at,
                      done |-> r.done], NoWait)
            /\ lv' = [lv EXCEPT ![c].late = Late(lv[c], r, "enable")]
    /\ pc' = [pc EXCEPT ![c] = "sne_unlock"]
    /\ UNCHANGED <<registry, hw, ticks, kona_timer_lock, probe, gc, rets,
                   lastw, opw, pre, cbs, shut>>

\* spin_unlock_irqrestore(&kona_timer_lock, flags); return 0;
SneUnlock(c) ==
    /\ pc[c] = "sne_unlock"
    /\ kona_timer_lock' = -1
    /\ lv' = [lv EXCEPT ![c].ret = 0]
    /\ pc' = [pc EXCEPT ![c] = AfterSne(lv[c])]
    /\ waits' = NoWait
    /\ UNCHANGED <<registry, hw, ticks, probe, gc, rets, lastw, opw, pre,
                   cbs, shut>>

\* ------------------------------------------------------------ kona_timer_disable_and_clear
\* variant: kona_timer_cpu_stop returns right after the shutdown
AfterDcSkipIrq(l) == IF l.op = "irq" THEN "irq_cb" ELSE "done"

\* where the caller of kona_timer_disable_and_clear continues
AfterDc(l) ==
    IF l.op = "irq" THEN "irq_cb"
    ELSE IF l.op = "cpu_stop" THEN "stop_irq"
    ELSE "done"

\* spin_lock_irqsave(&kona_timer_lock, flags)
DcLock(c) ==
    /\ pc[c] = "dc_lock"
    /\ SpinLockFree(kona_timer_lock)
    /\ kona_timer_lock' = c
    /\ opw' = [opw EXCEPT ![c] = Keep(Append(@, [off |-> LockLog, val |-> 0]), <<>>)]
    /\ pc' = [pc EXCEPT ![c] = "dc_rd"]
    /\ UNCHANGED <<registry, hw, ticks, lv, probe, gc, rets, lastw, waits,
                   pre, cbs, shut>>

\* reg = readl(base + KONA_GPTIMER_STCS_OFFSET)
DcRd(c) ==
    /\ pc[c] = "dc_rd"
    /\ lv' = [lv EXCEPT ![c].reg =
                Readl(hw[lv[c].base], KONA_GPTIMER_STCS_OFFSET)]
    /\ pc' = [pc EXCEPT ![c] = "dc_wr"]
    /\ UNCHANGED <<registry, hw, ticks, kona_timer_lock, ghost>>

\* the three updates of reg and writel(reg, base + STCS_OFFSET)
DcWr(c) ==
    /\ pc[c] = "dc_wr"
    /\ LET b == lv[c].base
           val == DcStcsValue(lv[c].reg, lv[c].ch)
           new == Writel(hw[b], val, KONA_GPTIMER_STCS_OFFSET)
       IN /\ hw' = [hw EXCEPT ![b] = new]
          /\ lv' = [lv EXCEPT ![c].reg = val]
          /\ opw' = [opw EXCEPT ![c] =
                       Keep(Append(@, [off |-> KONA_GPTIMER_STCS_OFFSET,
                                  val |-> val]), <<>>)]
          /\ lastw' = Keep([fn |-> "dc", ch |-> lv[c].ch,
                       before |-> hw[b].stcs, val |-> val,
                       after |-> new.stcs], NoWrite)
          /\ shut' = Keep(ShutAfterDcWrite(b, lv[c].ch, lv[c].op, new,
                                      hw[b].stcs = lv[c].reg), NoShut)
    /\ pc' = [pc EXCEPT ![c] = "dc_wait"]
    /\ UNCHANGED <<registry, ticks, kona_timer_lock, probe, gc, rets, waits,
                   pre, cbs>>

\* kona_wait_for_compare_enable_sync(base, ch_num, 0)
DcWait(c) ==
    /\ pc[c] = "dc_wait"
    /\ \E at \in SyncAt :
         LET b == lv[c].base
             r == EnableSyncOutcome[<<hw[b].stcs, lv[c].ch, 0, at>>]
         IN /\ waits' = Keep([fn |-> "enable", ch |-> lv[c].ch, target |-> 0,
                      polls |-> r.polls, loop_limit |-> r.loop_limit,
                      at |-> at,
                      done |-> r.done], NoWait)
            /\ lv' = [lv EXCEPT ![c].late = Late(lv[c], r, "disable")]
    /\ pc' = [pc EXCEPT ![c] = "dc_unlock"]
    /\ UNCHANGED <<registry, hw, ticks, kona_timer_lock, probe, gc, rets,
                   lastw, opw, pre, cbs, shut>>

\* spin_unlock_irqrestore(&kona_timer_lock, flags)
DcUnlock(c) ==
    /\ pc[c] = "dc_unlock"
    /\ kona_timer_lock' = -1
    /\ pc' = [pc EXCEPT ![c] = AfterDc(lv[c])]
    /\ waits' = NoWait
    /\ UNCHANGED <<registry, hw, ticks, lv, probe, gc, rets, lastw, opw,
                   pre, cbs, shut>>

\* ------------------------------------------------------------ kona_timer_shutdown
\* set_state_shutdown / tick_resume of the clockevent of channels[i] of the
\* timer in slot t
ShutdownEntry(c, t, i) ==
    /\ pc[c] = "idle"
    /\ c \in online
    /\ timers[t].ptr = "live"
    /\ timers[t].channels[i].has_clockevent
    /\ timers[t].channels[i].cpu = c
    /\ LET channel == timers[t].channels[i]
           timer == channel_to_timer(channel)
       IN /\ timer.ptr # "freed"
          /\ lv' = [lv EXCEPT ![c] =
                      [IdleLocals EXCEPT
                         !.op = "shutdown", !.t = t, !.i = i,
                         !.base = timer.base, !.ch = channel.id]]
          /\ pre' = [pre EXCEPT ![c] =
                       Keep(IF timer.ptr = "null" THEN ResetBlock
                       ELSE hw[timer.base], ResetBlock)]
          \* if (!timer) return 0;
          /\ pc' = [pc EXCEPT ![c] =
                      IF timer.ptr = "null" THEN "done" ELSE "dc_lock"]
    /\ opw' = [opw EXCEPT ![c] = <<>>]
    /\ UNCHANGED <<registry, hw, ticks, kona_timer_lock, probe, gc, rets,
                   lastw, waits, cbs, shut>>

\* the call made while no other CPU is inside the driver
CallShutdown(c, t, i) == Sequential(c) /\ ShutdownEntry(c, t, i)

\* ------------------------------------------------------------ kona_timer_interrupt
\* The hardware raises the compare match of an enabled channel.
HwMatch(b, ch) ==
    /\ BitAt(hw[b].stcs, EnableBit(ch)) = 1
    /\ BitAt(hw[b].stcs, MatchBit(ch)) = 0
    /\ hw' = [hw EXCEPT ![b].stcs = BitOr(@, Shl1(MatchBit(ch)))]
    /\ shut' = Keep(ShutTouched(b), NoShut)
    /\ UNCHANGED <<registry, ticks, kona_timer_lock, pc, lv, probe, gc, rets,
                   lastw, waits, opw, pre, cbs>>

\* the register block and the channel that raise interrupt number irq
IrqBase(irq) == (irq - 1) \div MAX_NUM_CHANNELS
IrqLine(irq) == (irq - 1) % MAX_NUM_CHANNELS

\* the CPU that takes the interrupt of a channel: the CPU of its clockevent,
\* the boot CPU when it has none
IrqCpu(channel) == IF channel.cpu \in Cpus THEN channel.cpu ELSE 0

\* The interrupt of a bound handler is taken on CPU c: dev_id is
\* &timer->channels[h.i] of the timer in slot h.t.
IrqTaken(c, h) ==
    /\ pc[c] = "idle"
    /\ h \in irqs => c = IrqCpu(timers[h.t].channels[h.i])
    /\ h \in irqs /\ h.irq \notin irq_off
    /\ BitAt(hw[IrqBase(h.irq)].stcs, MatchBit(IrqLine(h.irq))) = 1
    /\ LET channel == timers[h.t].channels[h.i]
           timer == channel_to_timer(channel)
       IN /\ timer.ptr = "live"
          /\ lv' = [lv EXCEPT ![c] =
                      [IdleLocals EXCEPT
                         !.op = "irq", !.t = h.t, !.i = h.i,
                         !.base = timer.base, !.ch = channel.id]]
          /\ pre' = [pre EXCEPT ![c] = Keep(hw[timer.base], ResetBlock)]
    /\ opw' = [opw EXCEPT ![c] = <<>>]
    /\ cbs' = [cbs EXCEPT ![c] = 0]
    /\ pc' = [pc EXCEPT ![c] = "dc_lock"]
    /\ UNCHANGED <<registry, hw, ticks, kona_timer_lock, probe, gc, rets,
                   lastw, waits, shut>>

\* the interrupt taken while no other CPU is inside the driver
IrqEntry(c, h) == Sequential(c) /\ IrqTaken(c, h)

\* variant: the lock taken with spin_lock, interrupts left on
IrqsEnabledNoSave(c) == lv[c].op # "irq"

\* Interrupts are off on a CPU that holds kona_timer_lock
\* (spin_lock_irqsave) and on a CPU that runs an interrupt handler.
IrqsEnabled(c) == kona_timer_lock # c /\ lv[c].op # "irq"

\* interrupts one call may be suspended by
MaxPreempt == 1

\* The interrupt of a bound handler is taken on CPU c while c is inside
\* set_next_event or shutdown: the call is suspended and the handler runs.
IrqPreempt(c, h) ==
    /\ pc[c] \notin {"idle", "done"}
    /\ IrqsEnabled(c)
    /\ lv[c].stack = <<>> /\ lv[c].hit < MaxPreempt
    /\ h \in irqs => c = IrqCpu(timers[h.t].channels[h.i])
    /\ h \in irqs /\ h.irq \notin irq_off
    /\ BitAt(hw[IrqBase(h.irq)].stcs, MatchBit(IrqLine(h.irq))) = 1
    /\ LET channel == timers[h.t].channels[h.i]
           timer == channel_to_timer(channel)
       IN /\ timer.ptr = "live"
          /\ lv' = [lv EXCEPT ![c] =
                      [IdleLocals EXCEPT
                         !.op = "irq", !.t = h.t, !.i = h.i,
                         !.base = timer.base, !.ch = channel.id,
                         !.stack = <<[pc |-> pc[c], lv |-> lv[c],
                                      gc |-> gc[c], opw |-> opw[c],
                                      pre |-> pre[c], cbs |-> cbs[c]]>>]]
          /\ pre' = [pre EXCEPT ![c] = Keep(hw[timer.base], ResetBlock)]
    /\ gc' = [gc EXCEPT ![c] = NoReads]
    /\ opw' = [opw EXCEPT ![c] = <<>>]
    /\ cbs' = [cbs EXCEPT ![c] = 0]
    /\ pc' = [pc EXCEPT ![c] = "dc_lock"]
    /\ UNCHANGED <<registry, hw, ticks, kona_timer_lock, probe, rets, lastw,
                   waits, shut>>

\* The handler has returned: the suspended call continues where it was.
IrqResume(c) ==
    /\ pc[c] = "done"
    /\ lv[c].stack # <<>>
    /\ LET s == lv[c].stack[1]
       IN /\ pc' = [pc EXCEPT ![c] = s.pc]
          /\ lv' = [lv EXCEPT ![c] = [s.lv EXCEPT !.hit = @ + 1]]
          /\ gc' = [gc EXCEPT ![c] = s.gc]
          /\ opw' = [opw EXCEPT ![c] = s.opw]
          /\ pre' = [pre EXCEPT ![c] = s.pre]
          /\ cbs' = [cbs EXCEPT ![c] = s.cbs]
    /\ UNCHANGED <<registry, hw, ticks, kona_timer_lock, probe, rets, lastw,
                   waits, shut>>

\* variant: the event handler is called whatever the channel holds
ConsumerReadyAlways(channel) == TRUE

\* if (channel->has_clockevent && channel->clockevent.event_handler)
ConsumerReady(channel) == channel.has_clockevent /\ channel.event_handler

\* the deltas the event handler asks for
CbDeltas == {MIN_DELTA_TICKS}

\* if (channel->has_clockevent && channel->clockevent.event_handler)
\*         channel->clockevent.event_handler(&channel->clockevent);
\* The handler of the clockevent core returns, or first programs the next
\* event through set_next_event of the same clockevent.
IrqCb(c) ==
    /\ pc[c] = "irq_cb"
    /\ LET channel == timers[lv[c].t].channels[lv[c].i]
       IN IF ConsumerReady(channel)
          THEN /\ cbs' = Keep([cbs EXCEPT ![c] = @ + 1], cbs)
               /\ \/ /\ pc' = [pc EXCEPT ![c] = "irq_ret"]
                     /\ UNCHANGED <<lv, gc, opw, pre>>
                  \/ \E clc \in CbDeltas :
                       /\ lv' = [lv EXCEPT
                                   ![c].nest = TRUE, ![c].clc = clc,
                                   ![c].loop_limit = COUNTER_LOOP_LIMIT]
                       /\ gc' = [gc EXCEPT ![c] = NoReads]
                       /\ opw' = [opw EXCEPT ![c] = <<>>]
                       /\ pre' = [pre EXCEPT ![c] = Keep(hw[lv[c].base], ResetBlock)]
                       /\ pc' = [pc EXCEPT ![c] = "gc_hi1"]
          ELSE /\ pc' = [pc EXCEPT ![c] = "irq_ret"]
               /\ UNCHANGED <<lv, gc, cbs, opw, pre>>
    /\ UNCHANGED <<registry, hw, ticks, kona_timer_lock, probe, rets, lastw,
                   waits, shut>>

\* Contexts a handler can be handed that do not resolve: dev_id is no
\* channel, or timers[channel->timer_id] is NULL.
MissingContexts == {"no_channel", "no_timer"}

\* kona_timer_interrupt(irq, dev_id) with such a context.  The function
\* reads channel->timer_id and timer->base without a test, so the read goes
\* through a NULL pointer: the CPU faults and the handler never returns, or
\* the read yields whatever is mapped there and the handler goes on as for
\* some bound channel.
IrqNoContext(c, ctx) ==
    /\ pc[c] = "idle" /\ Sequential(c)
    /\ \/ /\ lv' = [lv EXCEPT ![c] =
                      [IdleLocals EXCEPT !.op = "irq", !.ctx = ctx]]
          /\ pre' = [pre EXCEPT ![c] = ResetBlock]
          /\ pc' = [pc EXCEPT ![c] = "oops"]
       \/ \E h \in irqs :
             LET channel == timers[h.t].channels[h.i]
                 timer == channel_to_timer(channel)
             IN /\ timer.ptr = "live"
                /\ lv' = [lv EXCEPT ![c] =
                            [IdleLocals EXCEPT
                               !.op = "irq", !.t = h.t, !.i = h.i,
                               !.base = timer.base, !.ch = channel.id,
                               !.ctx = ctx]]
                /\ pre' = [pre EXCEPT ![c] = Keep(hw[timer.base], ResetBlock)]
                /\ pc' = [pc EXCEPT ![c] = "dc_lock"]
    /\ opw' = [opw EXCEPT ![c] = <<>>]
    /\ cbs' = [cbs EXCEPT ![c] = 0]
    /\ UNCHANGED <<registry, hw, ticks, kona_timer_lock, probe, gc, rets,
                   lastw, waits, shut>>

\* kona_timer_shutdown(evt) with such a context:
\* if (!channel) return 0; ... if (!timer) return 0;
ShutdownNoContext(c, ctx) ==
    /\ pc[c] = "idle" /\ Sequential(c)
    /\ lv' = [lv EXCEPT ![c] =
                [IdleLocals EXCEPT !.op = "shutdown", !.ctx = ctx,
                                   !.ret = 0]]
    /\ pre' = [pre EXCEPT ![c] = ResetBlock]
    /\ opw' = [opw EXCEPT ![c] = <<>>]
    /\ pc' = [pc EXCEPT ![c] = "done"]
    /\ UNCHANGED <<registry, hw, ticks, kona_timer_lock, probe, gc, rets,
                   lastw, waits, cbs, shut>>

\* return IRQ_HANDLED;
IrqRet(c) ==
    /\ pc[c] = "irq_ret"
    /\ lv' = [lv EXCEPT ![c].ret = IRQ_HANDLED, ![c].nest = FALSE]
    /\ pc' = [pc EXCEPT ![c] = "done"]
    /\ UNCHANGED <<registry, hw, ticks, kona_timer_lock, ghost>>

\* ------------------------------------------------------------ CPU hotplug
\* kona_timer_clockevents_init(timer, channel, cpu): the clockevent is
\* registered for cpu and the clockevent core installs its event handler
kona_timer_clockevents_init(channel, cpu) ==
    [channel EXCEPT !.has_clockevent = TRUE, !.event_handler = TRUE,
                    !.cpu = cpu]

\* kona_timer_cpu_start(cpu), run on the CPU that comes online
CpuStart(cpu) ==
    /\ hp
    /\ cpu \notin online
    /\ pc[cpu] = "idle" /\ Sequential(cpu)
    /\ IF local_timer < 0
       THEN UNCHANGED timers
       ELSE timers' = [timers EXCEPT ![local_timer].channels[cpu] =
                         kona_timer_clockevents_init(@, cpu)]
    /\ online' = online \cup {cpu}
    /\ probe' = [probe EXCEPT !.fresh = FALSE]
    /\ UNCHANGED <<num_timers, local_timer, irqs, hp, clocksrc, sched,
                   irq_off, hw, ticks, kona_timer_lock, pc, lv, gc, rets,
                   lastw, waits, opw, pre, cbs, shut>>

\* kona_timer_cpu_stop(cpu), run on the CPU that goes offline:
\* channel->clockevent.set_state_shutdown(&channel->clockevent)
CpuStop(cpu) ==
    /\ hp
    /\ cpu \in online
    /\ pc[cpu] = "idle" /\ Sequential(cpu)
    /\ local_timer >= 0
    /\ LET channel == timers[local_timer].channels[cpu]
           timer == channel_to_timer(channel)
       IN /\ timer.ptr = "live"
          /\ lv' = [lv EXCEPT ![cpu] =
                      [IdleLocals EXCEPT
                         !.op = "cpu_stop", !.t = local_timer, !.i = cpu,
                         !.base = timer.base, !.ch = channel.id]]
          /\ pre' = [pre EXCEPT ![cpu] = Keep(hw[timer.base], ResetBlock)]
    /\ opw' = [opw EXCEPT ![cpu] = <<>>]
    /\ pc' = [pc EXCEPT ![cpu] = "dc_lock"]
    /\ UNCHANGED <<registry, hw, ticks, kona_timer_lock, probe, gc, rets,
                   lastw, waits, cbs, shut>>

\* disable_percpu_irq(channel->clockevent.irq); return 0;
\* The call is entered in the CPU's log under IrqOffLog, as the lock is
\* under LockLog.
CpuStopIrq(cpu) ==
    /\ pc[cpu] = "stop_irq"
    /\ irq_off' = irq_off \cup {timers[lv[cpu].t].channels[lv[cpu].i].irq}
    /\ online' = online \ {cpu}
    /\ lv' = [lv EXCEPT ![cpu].ret = 0]
    /\ opw' = [opw EXCEPT ![cpu] =
                 Keep(Append(@, [off |-> IrqOffLog,
                            val |-> timers[lv[cpu].t].channels[lv[cpu].i].irq]), <<>>)]
    /\ pc' = [pc EXCEPT ![cpu] = "done"]
    /\ UNCHANGED <<timers, num_timers, local_timer, irqs, hp, clocksrc,
                   sched, hw, ticks, kona_timer_lock, probe, gc, rets, lastw,
                   waits, pre, cbs, shut>>

\* ------------------------------------------------------------ specifications
NoProbe == [n |-> 0, ret |-> 0, before |-> EmptyRegistry, earlier |-> 0,
            valid |-> 0, fresh |-> FALSE, failed |-> -1, freed |-> <<>>,
            no_rate |-> FALSE, no_irq |-> FALSE, capped |-> FALSE,
            hist |-> TRUE]

\* Nodes that probe without error: a free-running source and an event
\* multiplexer with all four channels.
SourceNode(b) ==
    [base |-> b, gpt |-> TRUE, irq_count |-> 1, clk |-> TRUE,
     prop |-> TRUE, freq |-> ClkRate,
     irq_fail |-> -1, alloc |-> TRUE]
EventNode(b) ==
    [base |-> b, gpt |-> FALSE, irq_count |-> MAX_NUM_CHANNELS, clk |-> TRUE,
     prop |-> TRUE, freq |-> ClkRate, irq_fail |-> -1, alloc |-> TRUE]

InitCpus ==
    /\ kona_timer_lock = -1
    /\ pc = [c \in Cpus |-> "idle"]
    /\ lv = [c \in Cpus |-> IdleLocals]
    /\ gc = [c \in Cpus |-> NoReads]
    /\ rets = [b \in Bases |-> [cur |-> 0, mono |-> TRUE]]
    /\ lastw = NoWrite
    /\ waits = NoWait
    /\ opw = [c \in Cpus |-> <<>>]
    /\ pre = [c \in Cpus |-> ResetBlock]
    /\ cbs = [c \in Cpus |-> 0]
    /\ shut = NoShut

InitRegistry(R) ==
    /\ timers = R.timers
    /\ num_timers = R.num_timers
    /\ local_timer = R.local_timer
    /\ irqs = R.irqs
    /\ hp = R.hp
    /\ clocksrc = R.clocksrc
    /\ sched = R.sched
    /\ online = {}
    /\ irq_off = {}

\* The registry after the boot probes: the source alone, or an event
\* multiplexer probed before the source.
SourceFirst == kona_timer_init(EmptyRegistry, SourceNode(0)).reg
SourceSecond ==
    kona_timer_init(kona_timer_init(EmptyRegistry, EventNode(0)).reg,
                    SourceNode(1)).reg

\* Counter reads: the registry is the one the probes leave, the counter of
\* every block starts anywhere.
InitCounter ==
    /\ \E R \in {SourceFirst, SourceSecond} : InitRegistry(R)
    /\ \E lo \in {1000, WordMod - 1} :
         hw = [b \in Bases |-> [ResetBlock EXCEPT !.lo = lo]]
    /\ ticks = 0
    /\ probe = NoProbe
    /\ InitCpus

NextCounter ==
    \/ \E b \in Bases : HwTick(b, {1, WordMod}, MaxTicks)
    \/ \E c \in Cpus : \E t \in Slots : CallClocksrcRead(c, t)
    \/ \E c \in Cpus : CallSchedClock(c)
    \/ \E c \in Cpus : GcHi1(c)
    \/ \E c \in Cpus : GcLo(c)
    \/ \E c \in Cpus : GcHi2(c)
    \/ \E c \in Cpus : RdRet(c)
    \/ \E c \in Cpus : Return(c)

SpecCounter == InitCounter /\ [][NextCounter]_vars

\* Channel operations: an event multiplexer with four channels is the only
\* timer (slot 0, block 0) and the local timer; its block is in the reset
\* state but for the counter, which has been running.
EventOnly == kona_timer_init(EmptyRegistry, EventNode(0)).reg

InitChan ==
    /\ InitRegistry(EventOnly)
    /\ hw = [b \in Bases |->
               IF b = 0 THEN [ResetBlock EXCEPT !.lo = 1000] ELSE ResetBlock]
    /\ ticks = 0
    /\ probe = NoProbe
    /\ InitCpus

NextChan ==
    \/ \E b \in Bases : HwTick(b, {WordMod}, COUNTER_LOOP_LIMIT)
    \/ \E b \in Bases : \E ch \in Chans : HwMatch(b, ch)
    \/ \E cpu \in Cpus : CpuStart(cpu)
    \/ \E c \in Cpus : \E t \in Slots : \E i \in Chans : \E clc \in Deltas :
         CallSetNextEvent(c, t, i, clc)
    \/ \E c \in Cpus : \E t \in Slots : \E i \in Chans : CallShutdown(c, t, i)
    \/ \E c \in Cpus : \E h \in irqs : IrqEntry(c, h)
    \/ \E c \in Cpus : GcHi1(c)
    \/ \E c \in Cpus : GcLo(c)
    \/ \E c \in Cpus : GcHi2(c)
    \/ \E c \in Cpus : SneChk(c)
    \/ \E c \in Cpus : SneLock(c)
    \/ \E c \in Cpus : SneWrCmp(c)
    \/ \E c \in Cpus : SneWaitVal(c)
    \/ \E c \in Cpus : SneRd(c)
    \/ \E c \in Cpus : SneWr(c)
    \/ \E c \in Cpus : SneWaitEn(c)
    \/ \E c \in Cpus : SneUnlock(c)
    \/ \E c \in Cpus : DcLock(c)
    \/ \E c \in Cpus : DcRd(c)
    \/ \E c \in Cpus : DcWr(c)
    \/ \E c \in Cpus : DcWait(c)
    \/ \E c \in Cpus : DcUnlock(c)
    \/ \E c \in Cpus : IrqCb(c)
    \/ \E c \in Cpus : IrqRet(c)
    \/ \E c \in Cpus : Return(c)

SpecChan == InitChan /\ [][NextChan]_vars

\* Registration: nothing is registered at boot; device nodes are probed one
\* after the other and CPUs come online.
InitReg ==
    /\ InitRegistry(EmptyRegistry)
    /\ hw = [b \in Bases |-> ResetBlock]
    /\ ticks = 0
    /\ probe = NoProbe
    /\ InitCpus

NextReg ==
    \/ Probe
    \/ \E cpu \in Cpus : CpuStart(cpu)

SpecReg == InitReg /\ [][NextReg]_vars

\* Hotplug: a free-running source and an event multiplexer were probed at
\* boot, in either order, the multiplexer with one interrupt or with four;
\* CPUs come online and go offline, and the clockevent core programs and
\* shuts down the consumers of the online CPUs.
EventNodeN(b, n) == [EventNode(b) EXCEPT !.irq_count = n]

HpRegistries ==
    { kona_timer_init(kona_timer_init(EmptyRegistry, SourceNode(0)).reg,
                      EventNodeN(1, n)).reg : n \in {1, MAX_NUM_CHANNELS} }
    \cup
    { kona_timer_init(kona_timer_init(EmptyRegistry, EventNodeN(0, n)).reg,
                      SourceNode(1)).reg : n \in {1, MAX_NUM_CHANNELS} }

InitHp ==
    /\ \E R \in HpRegistries : InitRegistry(R)
    /\ hw = [b \in Bases |-> ResetBlock]
    /\ ticks = 0
    /\ probe = NoProbe
    /\ InitCpus

NextHp ==
    \/ \E b \in Bases : \E ch \in Chans : HwMatch(b, ch)
    \/ \E cpu \in Cpus : CpuStart(cpu)
    \/ \E cpu \in Cpus : CpuStop(cpu)
    \/ \E cpu \in Cpus : CpuStopIrq(cpu)
    \/ \E c \in Cpus : \E t \in Slots : \E i \in Chans :
         CallSetNextEvent(c, t, i, MIN_DELTA_TICKS)
    \/ \E c \in Cpus : \E t \in Slots : \E i \in Chans : CallShutdown(c, t, i)
    \/ \E c \in Cpus : \E h \in irqs : IrqEntry(c, h)
    \/ \E c \in Cpus : GcHi1(c)
    \/ \E c \in Cpus : GcLo(c)
    \/ \E c \in Cpus : GcHi2(c)
    \/ \E c \in Cpus : SneChk(c)
    \/ \E c \in Cpus : SneLock(c)
    \/ \E c \in Cpus : SneWrCmp(c)
    \/ \E c \in Cpus : SneWaitVal(c)
    \/ \E c \in Cpus : SneRd(c)
    \/ \E c \in Cpus : SneWr(c)
    \/ \E c \in Cpus : SneWaitEn(c)
    \/ \E c \in Cpus : SneUnlock(c)
    \/ \E c \in Cpus : DcLock(c)
    \/ \E c \in Cpus : DcRd(c)
    \/ \E c \in Cpus : DcWr(c)
    \/ \E c \in Cpus : DcWait(c)
    \/ \E c \in Cpus : DcUnlock(c)
    \/ \E c \in Cpus : IrqCb(c)
    \/ \E c \in Cpus : IrqRet(c)
    \/ \E c \in Cpus : Return(c)

SpecHp == InitHp /\ [][NextHp]_vars

\* Dispatch: an event multiplexer with four channels is the only timer.  The
\* probe does not touch the channels (its disable_and_clear call is commented
\* out), so the status register is as the firmware left it, with the
\* compare of channel 0, or of channels 0 and 1, enabled.  Channel 0 has no
\* clockevent, or CPU 0 has registered one, for which the clockevent core
\* has installed an event handler or not.
FirmwareStcs ==
    {Shl1(EnableBit(0)), BitOr(Shl1(EnableBit(0)), Shl1(EnableBit(1)))}

DispChannels ==
    LET ch0 == EventOnly.timers[0].channels[0]
    IN {ch0, kona_timer_clockevents_init(ch0, 0),
        [kona_timer_clockevents_init(ch0, 0) EXCEPT !.event_handler = FALSE]}

InitDisp ==
    /\ InitCpus
    /\ \E ch0 \in DispChannels :
         /\ timers = [EventOnly.timers EXCEPT ![0].channels[0] = ch0]
         /\ online = IF ch0.has_clockevent THEN {0} ELSE {}
    /\ num_timers = EventOnly.num_timers
    /\ local_timer = EventOnly.local_timer
    /\ irqs = EventOnly.irqs
    /\ hp = EventOnly.hp
    /\ clocksrc = EventOnly.clocksrc
    /\ sched = EventOnly.sched
    /\ irq_off = {}
    /\ \E stcs \in FirmwareStcs :
         hw = [b \in Bases |->
                 IF b = 0 THEN [ResetBlock EXCEPT !.stcs = stcs, !.lo = 1000]
                 ELSE ResetBlock]
    /\ ticks = 0
    /\ probe = NoProbe

NextDisp ==
    \/ \E b \in Bases : \E ch \in Chans : HwMatch(b, ch)
    \/ \E c \in Cpus : \E h \in irqs : IrqEntry(c, h)
    \/ \E c \in Cpus : \E ctx \in MissingContexts : IrqNoContext(c, ctx)
    \/ \E c \in Cpus : \E ctx \in MissingContexts : ShutdownNoContext(c, ctx)
    \/ \E c \in Cpus : \E t \in Slots : \E i \in Chans : CallShutdown(c, t, i)
    \/ \E c \in Cpus : GcHi1(c)
    \/ \E c \in Cpus : GcLo(c)
    \/ \E c \in Cpus : GcHi2(c)
    \/ \E c \in Cpus : SneChk(c)
    \/ \E c \in Cpus : SneLock(c)
    \/ \E c \in Cpus : SneWrCmp(c)
    \/ \E c \in Cpus : SneWaitVal(c)
    \/ \E c \in Cpus : SneRd(c)
    \/ \E c \in Cpus : SneWr(c)
    \/ \E c \in Cpus : SneWaitEn(c)
    \/ \E c \in Cpus : SneUnlock(c)
    \/ \E c \in Cpus : DcLock(c)
    \/ \E c \in Cpus : DcRd(c)
    \/ \E c \in Cpus : DcWr(c)
    \/ \E c \in Cpus : DcWait(c)
    \/ \E c \in Cpus : DcUnlock(c)
    \/ \E c \in Cpus : IrqCb(c)
    \/ \E c \in Cpus : IrqRet(c)
    \/ \E c \in Cpus : Return(c)

SpecDisp == InitDisp /\ [][NextDisp]_vars

\* Concurrency: one event multiplexer with four channels, both CPUs online
\* with their clockevents registered.  The clockevent core calls
\* set_next_event and shutdown on either CPU at any time, and a channel's
\* interrupt is taken on its CPU whenever interrupts are on there, also in
\* the middle of a call.
BothOnline ==
    [EventOnly EXCEPT
       !.timers[0].channels =
           [i \in Chans |->
               IF i \in Cpus THEN kona_timer_clockevents_init(@[i], i)
               ELSE @[i]]]

InitConc ==
    /\ InitCpus
    /\ timers = BothOnline.timers
    /\ num_timers = BothOnline.num_timers
    /\ local_timer = BothOnline.local_timer
    /\ irqs = BothOnline.irqs
    /\ hp = BothOnline.hp
    /\ clocksrc = BothOnline.clocksrc
    /\ sched = BothOnline.sched
    /\ online = Cpus
    /\ irq_off = {}
    /\ hw = [b \in Bases |-> ResetBlock]
    /\ ticks = 0
    /\ probe = [NoProbe EXCEPT !.hist = FALSE]

\* one step of the driver code on CPU c
CpuStep(c) ==
    \/ GcHi1(c) \/ GcLo(c) \/ GcHi2(c)
    \/ SneChk(c) \/ SneWrCmp(c) \/ SneWaitVal(c) \/ SneRd(c)
    \/ SneWr(c) \/ SneWaitEn(c) \/ SneUnlock(c)
    \/ DcRd(c) \/ DcWr(c) \/ DcWait(c) \/ DcUnlock(c)
    \/ IrqCb(c) \/ IrqRet(c) \/ IrqResume(c) \/ Return(c)

NextConc ==
    \/ \E b \in Bases : \E ch \in Chans : HwMatch(b, ch)
    \/ \E c \in Cpus : \E t \in Slots : \E i \in Chans :
         SetNextEventEntry(c, t, i, MIN_DELTA_TICKS)
    \/ \E c \in Cpus : \E t \in Slots : \E i \in Chans :
         ShutdownEntry(c, t, i)
    \/ \E c \in Cpus : \E h \in irqs : IrqTaken(c, h)
    \/ \E c \in Cpus : \E h \in irqs : IrqPreempt(c, h)
    \/ \E c \in Cpus : SneLock(c)
    \/ \E c \in Cpus : DcLock(c)
    \/ \E c \in Cpus : CpuStep(c)

SpecConc == InitConc /\ [][NextConc]_vars

\* Progress: CPU 0 programs its clockevent and takes the interrupts of its
\* channel, also in the middle of a call, while CPU 1 shuts its clockevent
\* down, and the counter's high word changes under kona_timer_get_counter.
\* A CPU inside the driver keeps executing (weak fairness of its steps), and
\* a CPU spinning in spin_lock_irqsave gets the lock when it is released
\* again and again (the kernel's spinlocks are fair).  Calls and interrupts
\* arrive or not.
NextLive ==
    \/ \E b \in Bases : HwTick(b, {WordMod}, COUNTER_LOOP_LIMIT)
    \/ \E b \in Bases : \E ch \in Chans : HwMatch(b, ch)
    \/ \E t \in Slots : \E i \in Chans :
         SetNextEventEntry(0, t, i, MIN_DELTA_TICKS)
    \/ \E t \in Slots : \E i \in Chans : ShutdownEntry(1, t, i)
    \/ \E c \in Cpus : \E h \in irqs : IrqTaken(c, h)
    \/ \E c \in Cpus : \E h \in irqs : IrqPreempt(c, h)
    \/ \E c \in Cpus : SneLock(c)
    \/ \E c \in Cpus : DcLock(c)
    \/ \E c \in Cpus : CpuStep(c)

Fairness ==
    \A c \in Cpus :
        /\ WF_vars(CpuStep(c))
        /\ SF_vars(SneLock(c) \/ DcLock(c))

SpecLive == InitConc /\ [][NextLive]_vars /\ Fairness

\* ------------------------------------------------------------ claims
\* kona_timer_get_counter has returned to its caller on CPU c
GcReturned(c) == pc[c] \in {"rd_ret", "sne_chk"}

\* C1: whenever kona_timer_get_counter reports success, the high word it
\* returns is the value the high-word register had right after the low-word
\* read and also at the moment the low word was sampled, every attempt that
\* saw the high word change was discarded, so the pair returned is the value
\* the 64-bit counter had when the low word was read.
C1_TearFree ==
    \A c \in Cpus :
        (GcReturned(c) /\ lv[c].ret = 0) =>
            /\ gc[c].h2 = lv[c].msw
            /\ gc[c].hiAtLo = lv[c].msw
            /\ gc[c].attempts = gc[c].changed + 1

\* a successful read that discarded a torn attempt
C1_Witness ==
    \E c \in Cpus :
        GcReturned(c) /\ lv[c].ret = 0 /\ gc[c].changed >= 1

\* C2: on every register block, the values returned by the clocksource read
\* and the scheduler-clock read never go down while the hardware counter
\* only goes up.
C2_Monotonic == \A b \in Bases : rets[b].mono

\* a read that timed out is about to return after an earlier read returned
C2_Witness ==
    \E c \in Cpus :
        /\ pc[c] = "rd_ret" /\ lv[c].ret = -ETIMEDOUT
        /\ rets[lv[c].base].cur > 0
        /\ CounterValue(lv[c].msw, lv[c].lsw) > rets[lv[c].base].cur

\* C3: the counter read makes at most 3 attempts and 9 register reads, goes
\* on only after an attempt whose two high-word reads differ, succeeds at
\* the first attempt whose two high-word reads are equal and returns
\* -ETIMEDOUT exactly when three attempts saw the high word change.
C3_BoundedAttempts ==
    \A c \in Cpus :
        /\ gc[c].attempts <= 3
        /\ gc[c].reads <= 9
        /\ pc[c] = "gc_hi1" => gc[c].attempts = gc[c].changed
        /\ pc[c] \in {"gc_lo", "gc_hi2"} =>
               gc[c].attempts = gc[c].changed + 1
        /\ GcReturned(c) =>
               /\ lv[c].ret \in {0, -ETIMEDOUT}
               /\ lv[c].ret = 0 =>
                      (gc[c].h2 = lv[c].msw
                       /\ gc[c].attempts = gc[c].changed + 1)
               /\ lv[c].ret = -ETIMEDOUT <=> gc[c].changed = 3
               /\ gc[c].reads = 3 * gc[c].attempts

\* the read gives up after nine register reads
C3_Witness ==
    \E c \in Cpus :
        GcReturned(c) /\ lv[c].ret = -ETIMEDOUT /\ gc[c].reads = 9

\* ------------------------------------------------------------ channel claims
\* kona_timer_set_next_event has returned on CPU c, to the kernel or to the
\* event handler that called it
SneReturned(c) ==
    \/ pc[c] = "done" /\ lv[c].op = "sne"
    \/ pc[c] = "irq_ret" /\ lv[c].nest

\* CPU c is inside kona_timer_set_next_event, past the check of the counter
\* read
SnePastCheck(c) ==
    pc[c] \in {"sne_lock", "sne_wr_cmp", "sne_wait_val", "sne_rd", "sne_wr",
               "sne_wait_en", "sne_unlock"}

\* C4: a set_next_event on channel ch whose counter read succeeded with low
\* word L has, when it returns, taken the lock, then written (L + delta)
\* modulo the word size to the compare register at 0x0C + 4*ch, then
\* written the status register with bits ch and 4+ch set, and nothing
\* else; it returns 0 and the channel is enabled with that compare value.
\* The status write keeps every other channel's enable bit and every other
\* channel's match bit that was not pending.
C4_ArmsChannel ==
    /\ \A c \in Cpus :
         (SneReturned(c) /\ opw[c] # << >>) =>
            LET ch == lv[c].ch
                blk == hw[lv[c].base]
                cmp == (lv[c].lsw + lv[c].clc) % WordMod
            IN /\ lv[c].ret = 0
               /\ Len(opw[c]) = 3
               /\ opw[c][1].off = -1
               /\ opw[c][2] = [off |-> 12 + 4 * ch, val |-> cmp]
               /\ opw[c][3].off = 0
               /\ BitAt(opw[c][3].val, ch) = 1
               /\ BitAt(opw[c][3].val, 4 + ch) = 1
               /\ blk.stcm[ch] = cmp
               /\ BitAt(blk.stcs, 4 + ch) = 1
    /\ lastw.fn = "sne" =>
         \A B \in Chans \ {lastw.ch} :
            /\ BitAt(lastw.after, 4 + B) = BitAt(lastw.before, 4 + B)
            /\ BitAt(lastw.before, B) = 0 => BitAt(lastw.after, B) = 0

\* channel 0 armed with delta 6 at low word 1000: 1006 written at 0x0C, then
\* bits 0 and 4 set, the bits of channel 1 as they were
C4_Witness ==
    \E c \in Cpus :
        /\ SneReturned(c) /\ lv[c].ret = 0
        /\ lv[c].ch = 0 /\ lv[c].clc = 6 /\ lv[c].lsw = 1000
        /\ Len(opw[c]) = 3
        /\ opw[c][2] = [off |-> 12, val |-> 1006]
        /\ BitAt(opw[c][3].val, 0) = 1 /\ BitAt(opw[c][3].val, 4) = 1
        /\ lastw.fn = "sne" /\ lastw.ch = 0
        /\ BitAt(lastw.after, 1) = BitAt(lastw.before, 1)
        /\ BitAt(lastw.after, 5) = BitAt(lastw.before, 5)
        /\ BitAt(lastw.before, 5) = 1

\* C5: arming channel A leaves, for every other channel B, the compare
\* register, the match bit B and the enable bit 4+B as they were.
C5_ChannelIsolation ==
    /\ lastw.fn = "sne" =>
         \A B \in Chans \ {lastw.ch} :
            /\ BitAt(lastw.after, B) = BitAt(lastw.before, B)
            /\ BitAt(lastw.after, 4 + B) = BitAt(lastw.before, 4 + B)
    /\ \A c \in Cpus :
         SneReturned(c) =>
            \A B \in Chans \ {lv[c].ch} :
               hw[lv[c].base].stcm[B] = pre[c].stcm[B]

\* C6: a set_next_event whose counter read timed out returns -ETIMEDOUT
\* without taking the lock and without a register write: the compare
\* registers and the enable bits are as at entry and no match bit that was
\* pending at entry is cleared.  Only a call whose counter read returned 0
\* goes past the check.
C6_TimeoutAborts ==
    \A c \in Cpus :
        /\ SnePastCheck(c) => lv[c].ret = 0
        /\ (SneReturned(c) /\ lv[c].ret # 0) =>
              /\ lv[c].ret = -110
              /\ opw[c] = << >>
              /\ hw[lv[c].base].stcm = pre[c].stcm
              /\ \A ch \in Chans :
                    /\ BitAt(hw[lv[c].base].stcs, 4 + ch)
                         = BitAt(pre[c].stcs, 4 + ch)
                    /\ BitAt(pre[c].stcs, ch) = 1
                         => BitAt(hw[lv[c].base].stcs, ch) = 1

\* a rearm of an armed channel gave up on the counter
C6_Witness ==
    \E c \in Cpus :
        /\ SneReturned(c) /\ lv[c].ret = -110
        /\ BitAt(pre[c].stcs, 4 + lv[c].ch) = 1
        /\ pre[c].stcm[lv[c].ch] # 0

\* C7: a sync wait has returned after at most 1000 polls; when the awaited
\* bit reaches its target at poll number at <= 1000 the wait made exactly
\* at polls, and when it does not the wait made exactly 1000 polls.
C7_BoundedWait ==
    waits.fn # "none" =>
        /\ waits.done
        /\ waits.polls >= 1 /\ waits.polls <= 1000
        /\ waits.at <= 1000 => waits.polls = waits.at
        /\ waits.at > 1000 => waits.polls = 1000 /\ waits.loop_limit = 0

\* the wait for a cleared enable gave up after 1000 polls
C7_Witness ==
    /\ waits.fn = "enable" /\ waits.target = 0
    /\ waits.at > 1000 /\ waits.polls = 1000

\* the interrupt handler on CPU c has called disable_and_clear and not yet
\* looked at the consumer
IrqBeforeCb(c) ==
    /\ lv[c].op = "irq"
    /\ pc[c] \in {"dc_lock", "dc_rd", "dc_wr", "dc_wait", "dc_unlock",
                   "irq_cb"}

\* the channel whose interrupt CPU c handles has a consumer with a handler
\* installed
HasConsumer(c) ==
    LET channel == timers[lv[c].t].channels[lv[c].i]
    IN channel.has_clockevent /\ channel.event_handler

\* C8: the interrupt of channel ch was taken with match bit ch set; no
\* callback is made before disable_and_clear has returned, at that moment
\* match bit ch and enable bit 4+ch are clear, and from then on the
\* consumer's callback has been invoked exactly once.
C8_IrqDispatch ==
    \A c \in Cpus :
        lv[c].op = "irq" =>
            /\ IrqBeforeCb(c) => cbs[c] = 0
            /\ pc[c] = "irq_cb" =>
                  /\ BitAt(hw[lv[c].base].stcs, lv[c].ch) = 0
                  /\ BitAt(hw[lv[c].base].stcs, 4 + lv[c].ch) = 0
                  /\ Len(opw[c]) = 2
                  /\ BitAt(pre[c].stcs, lv[c].ch) = 1
            /\ (~IrqBeforeCb(c) /\ HasConsumer(c)) => cbs[c] = 1

\* the interrupt of channel 1 is done: bits 1 and 5 clear, one callback
C8_Witness ==
    \E c \in Cpus :
        /\ pc[c] = "done" /\ lv[c].op = "irq" /\ lv[c].ch = 1
        /\ BitAt(pre[c].stcs, 1) = 1 /\ BitAt(pre[c].stcs, 5) = 1
        /\ BitAt(hw[lv[c].base].stcs, 1) = 0
        /\ BitAt(hw[lv[c].base].stcs, 5) = 0
        /\ cbs[c] = 1

\* the status register after disable_and_clear of channel ch_num ran on a
\* register holding stcs
StcsAfterDc(stcs, ch_num) == HwStcsWrite(stcs, DcStcsValue(stcs, ch_num))

\* for every channel and every value of the status register, a second
\* disable_and_clear leaves what the first one left
DcTwiceIsOnce ==
    \A stcs \in 0 .. 255 : \A ch_num \in Chans :
        StcsAfterDc(StcsAfterDc(stcs, ch_num), ch_num)
            = StcsAfterDc(stcs, ch_num)

\* C9: with the hardware raising no match meanwhile, once a shutdown of a
\* channel has written the registers, further shutdowns of the same
\* channel leave the status register and the compare registers as the
\* first one left them; and so for every channel and register value.
C9_IdempotentShutdown ==
    /\ shut.n > 0 =>
          /\ hw[shut.base].stcs = shut.stcs
          /\ hw[shut.base].stcm = shut.stcm
    /\ DcTwiceIsOnce

\* a second shutdown in a row has returned, with another channel armed
C9_Witness ==
    \E c \in Cpus :
        /\ pc[c] = "done" /\ lv[c].op = "shutdown"
        /\ shut.n = 2 /\ shut.ch = lv[c].ch
        /\ shut.stcs # 0
        /\ shut.stcm[shut.ch] # 0

\* ------------------------------------------------------------ registry claims
\* kona_timer_init has just returned from probing a node with valid geometry
ValidAttempt == probe.fresh /\ probe.valid = 1

\* kona_timer_init has just returned from an attempt to create a 4th timer:
\* at least three calls with a valid node were made before it
FourthAttempt == probe.fresh /\ probe.earlier >= 3

\* C10: the number of registered timers never exceeds 3, and a
\* kona_timer_init called to create a 4th timer returns -EINVAL and leaves
\* the timer array, the count and the local timer as they were.
C10_RegistryCapacity ==
    /\ num_timers >= 0 /\ num_timers <= 3
    /\ FourthAttempt =>
          /\ probe.ret = -22
          /\ timers = probe.before.timers
          /\ num_timers = probe.before.num_timers
          /\ local_timer = probe.before.local_timer

\* a valid 4th node was probed after three valid ones and was rejected
C10_Witness ==
    /\ FourthAttempt /\ probe.valid = 1
    /\ probe.ret = -22
    /\ num_timers = probe.before.num_timers

\* C11: the registry holds up to 3 timers: a kona_timer_init called with a
\* valid node while fewer than 3 timers are registered is not rejected, it
\* registers the timer in the next free slot; so three valid probes leave
\* live timers in slots 0, 1, 2.
C11_HoldsThree ==
    (ValidAttempt /\ probe.before.num_timers < MAX_NUM_TIMERS) =>
        /\ probe.ret = 0
        /\ num_timers = probe.before.num_timers + 1
        /\ timers[probe.before.num_timers].ptr = "live"
        /\ timers[probe.before.num_timers].is_initialized

\* kona_timer_init has just returned after request_irq failed for a channel
IrqBindFailed == probe.fresh /\ probe.failed >= 0

\* the interrupts of channels i-1 down to 0 of the timer the failed probe
\* was creating on register block b
BoundBefore(b, i) == [k \in 1 .. i |-> IrqOf(b, i - k)]

\* C12: when request_irq fails for channel i, the interrupts of channels
\* i-1 .. 0 are each freed once, kona_timer_init fails, and the timer array,
\* the count, the bound interrupts and the local timer are as before the
\* call, with no slot of the timer array pointing to the freed timer.
C12_IrqBindUnwind ==
    IrqBindFailed =>
        /\ probe.ret = -EINVAL
        /\ probe.freed = BoundBefore(probe.n - 1, probe.failed)
        /\ timers = probe.before.timers
        /\ num_timers = probe.before.num_timers
        /\ local_timer = probe.before.local_timer
        /\ irqs = probe.before.irqs
        /\ \A s \in Slots : timers[s].ptr # "freed"

\* kona_timer_init has just returned from probing a node that has no
\* interrupt or no clock-rate source
BadGeometry == probe.fresh /\ (probe.no_rate \/ probe.no_irq)

\* C13: kona_timer_init on a node with no interrupt or with no clock-rate
\* source fails, binds no interrupt and registers nothing: the timer array,
\* the count, the bound interrupts, the clocksources and the local timer are
\* as before the call.
C13_BadGeometryRejected ==
    BadGeometry =>
        /\ probe.ret < 0
        /\ timers = probe.before.timers
        /\ num_timers = probe.before.num_timers
        /\ local_timer = probe.before.local_timer
        /\ irqs = probe.before.irqs
        /\ clocksrc = probe.before.clocksrc

\* slot s holds a registered event multiplexer (not a free-running source)
EventTimerAt(s) ==
    /\ s < num_timers
    /\ timers[s].ptr = "live"
    /\ ~timers[s].is_gptimer

\* C14: the local timer is the first event multiplexer that was probed, and
\* once it is designated a later kona_timer_init does not change it.
C14_LocalTimerStable ==
    /\ local_timer >= 0 =>
          /\ EventTimerAt(local_timer)
          /\ \A s \in Slots : s < local_timer => ~EventTimerAt(s)
    /\ (probe.fresh /\ probe.before.local_timer >= 0) =>
          local_timer = probe.before.local_timer

\* ------------------------------------------------------------ hotplug claims
\* slot s holds a registered free-running source
SourceAt(s) ==
    /\ s < num_timers
    /\ timers[s].ptr = "live"
    /\ timers[s].is_gptimer

\* C15: a timer created as free-running source has no interrupt handler
\* bound, none of its channels has a clockevent, and no compare-enable bit
\* of its status register is ever set, whatever the CPUs and the clockevents
\* of the other timer do.
C15_SourceArmsNothing ==
    \A s \in Slots : SourceAt(s) =>
        /\ \A h \in irqs : h.t # s
        /\ \A i \in Chans : ~timers[s].channels[i].has_clockevent
        /\ BitAnd(hw[timers[s].base].stcs, AllEnable) = 0

\* CPU c is inside set_next_event or shutdown called through a clockevent
ViaConsumer(c) ==
    pc[c] # "idle" /\ lv[c].op \in {"sne", "shutdown", "cpu_stop"}

\* C16: the clockevent registered when CPU k comes online sits on
\* channels[k] of the local timer with cpumask CPU k, and a set_next_event
\* or shutdown through it works on hardware channel k of the local timer's
\* register block.
C16_OnlineBindsChannelK ==
    /\ \A t \in Slots : \A i \in Chans :
          (timers[t].ptr = "live" /\ timers[t].channels[i].has_clockevent) =>
              /\ t = local_timer
              /\ timers[t].channels[i].cpu = i
    /\ \A c \in Cpus : ViaConsumer(c) =>
          /\ lv[c].t = local_timer /\ lv[c].i = c
          /\ lv[c].ch = c
          /\ lv[c].base = timers[local_timer].base

\* kona_timer_cpu_stop has returned on CPU c
StopReturned(c) == pc[c] = "done" /\ lv[c].op = "cpu_stop"

\* C17: kona_timer_cpu_stop on CPU k first runs the shutdown of channels[k]
\* of the local timer, which leaves the compare-enable bit of its channel
\* clear, and then disables the interrupt of the channel; when it returns
\* the compare-enable bit of channel k of the local timer is clear.
C17_OfflineShutsDownFirst ==
    \A c \in Cpus :
        /\ pc[c] = "stop_irq" =>
              /\ lv[c].t = local_timer /\ lv[c].i = c
              /\ Len(opw[c]) = 2
              /\ opw[c][1].off = LockLog
              /\ opw[c][2].off = KONA_GPTIMER_STCS_OFFSET
              /\ BitAt(opw[c][2].val, EnableBit(lv[c].ch)) = 0
              /\ kona_timer_lock # c
              /\ c \in online
        /\ StopReturned(c) =>
              /\ Len(opw[c]) = 3
              /\ opw[c][2].off = KONA_GPTIMER_STCS_OFFSET
              /\ opw[c][3] =
                    [off |-> IrqOffLog,
                     val |-> timers[local_timer].channels[c].irq]
              /\ opw[c][3].val \in irq_off
              /\ c \notin online
              /\ lv[c].ret = 0
              /\ BitAt(hw[lv[c].base].stcs, EnableBit(lv[c].ch)) = 0
              /\ BitAt(hw[timers[local_timer].base].stcs, EnableBit(c)) = 0

\* CPU 1 went offline while channel 1 of a four-channel local timer was
\* armed
C17_Witness ==
    /\ StopReturned(1)
    /\ timers[local_timer].num_channels = MAX_NUM_CHANNELS
    /\ lv[1].ch = 1
    /\ BitAt(pre[1].stcs, EnableBit(1)) = 1
    /\ BitAt(hw[lv[1].base].stcs, EnableBit(1)) = 0

\* ------------------------------------------------------------ concurrency claims
\* the statements between spin_lock_irqsave and spin_unlock_irqrestore of
\* kona_timer_set_next_event and kona_timer_disable_and_clear
LockedPcs ==
    {"sne_wr_cmp", "sne_wait_val", "sne_rd", "sne_wr", "sne_wait_en",
     "sne_unlock", "dc_rd", "dc_wr", "dc_wait", "dc_unlock"}

InLocked(c) == pc[c] \in LockedPcs

\* the outermost call on CPU c has returned
CallReturned(c, op) ==
    pc[c] = "done" /\ lv[c].op = op /\ lv[c].stack = <<>>

\* C18: at most one context is inside the locked section of
\* kona_timer_set_next_event or kona_timer_disable_and_clear, on any CPU and
\* in process or interrupt context: a CPU inside holds the lock, no two
\* CPUs are inside, and no call suspended by an interrupt is inside.  When a
\* set_next_event on channel A and a shutdown on channel B that were in
\* flight together have both returned, the compare-enable bit of A is set
\* and that of B is clear.
C18_MutualExclusion ==
    /\ \A c \in Cpus : InLocked(c) => kona_timer_lock = c
    /\ \A c, d \in Cpus : (InLocked(c) /\ InLocked(d)) => c = d
    /\ \A c \in Cpus :
          lv[c].stack # <<>> => lv[c].stack[1].pc \notin LockedPcs
    /\ \A a, b \in Cpus :
          (/\ a # b
           /\ CallReturned(a, "sne") /\ lv[a].ret = 0
           /\ CallReturned(b, "shutdown")
           /\ lv[a].base = lv[b].base /\ lv[a].ch # lv[b].ch) =>
              /\ BitAt(hw[lv[a].base].stcs, EnableBit(lv[a].ch)) = 1
              /\ BitAt(hw[lv[b].base].stcs, EnableBit(lv[b].ch)) = 0

\* CPU 1 is in the middle of the status read-modify-write that shuts down
\* the armed channel 1 while CPU 0, arming channel 0, waits for the lock
C18_Witness ==
    /\ pc[1] = "dc_wr" /\ lv[1].op = "shutdown" /\ lv[1].ch = 1
    /\ BitAt(lv[1].reg, EnableBit(1)) = 1
    /\ kona_timer_lock = 1
    /\ pc[0] = "sne_lock" /\ lv[0].op = "sne" /\ lv[0].ch = 0

\* CPU c is about to spin on a lock it holds itself
SelfDeadlock(c) == pc[c] \in {"sne_lock", "dc_lock"} /\ kona_timer_lock = c

\* C19: every call of set_next_event, shutdown and the interrupt handler
\* that a CPU has entered returns, with the lock not held by that CPU,
\* whatever the other CPU and the interrupts do, whether or not the sync
\* bits show up and the high word holds still; and no context tries to take
\* the lock while its own CPU holds it.
C19_NoBlocking ==
    /\ [](\A c \in Cpus : ~SelfDeadlock(c))
    /\ \A c \in Cpus :
          (pc[c] # "idle") ~> (pc[c] = "idle" /\ kona_timer_lock # c)

\* the interrupt handler on CPU 0, entered in the middle of a call, waits
\* for the lock that a process-context caller on CPU 1 holds
C19_Witness ==
    /\ pc[0] = "dc_lock" /\ lv[0].op = "irq" /\ lv[0].stack # <<>>
    /\ kona_timer_lock = 1 /\ lv[1].op \in {"sne", "shutdown"}

\* ------------------------------------------------------------ sync-wait timeouts
\* the place of a wait in the order disable_and_clear and set_next_event
\* make their waits
WaitRank(fn) == IF fn = "disable" THEN 0 ELSE IF fn = "val" THEN 1 ELSE 2

\* every wait of the call of CPU c timed out at most once, in program order
NoRetry(c) ==
    \A j \in 1 .. Len(lv[c].late) : \A k \in 1 .. Len(lv[c].late) :
        j < k => WaitRank(lv[c].late[j]) < WaitRank(lv[c].late[k])

\* fn is among the waits that timed out in the call of CPU c
TimedOut(c, fn) == \E j \in 1 .. Len(lv[c].late) : lv[c].late[j] = fn

\* C20: a sync wait that used up its 1000 polls is not reported to the
\* caller. A set_next_event whose compare-value or compare-enable wait timed
\* out has written the status register with the channel's match bit and
\* compare-enable bit set, has released the lock and has returned 0; after a
\* timed-out compare-value wait it goes on to the status write with the lock
\* held. A disable_and_clear whose wait timed out has written the register
\* with the enable bit clear and released the lock. No wait is made twice.
C20_TimeoutNotPropagated ==
    \A c \in Cpus :
        /\ NoRetry(c)
        /\ (pc[c] = "sne_rd" /\ TimedOut(c, "val")) => kona_timer_lock = c
        /\ (pc[c] = "done" /\ lv[c].op = "sne"
              /\ (TimedOut(c, "val") \/ TimedOut(c, "enable"))) =>
              /\ lv[c].ret = 0
              /\ kona_timer_lock # c
              /\ lastw.fn = "sne" /\ lastw.ch = lv[c].ch
              /\ BitAt(lastw.val, MatchBit(lv[c].ch)) = 1
              /\ BitAt(lastw.val, EnableBit(lv[c].ch)) = 1
              /\ opw[c][Len(opw[c])].val = lastw.val
        /\ (pc[c] = "done" /\ lv[c].op = "shutdown"
              /\ TimedOut(c, "disable")) =>
              /\ kona_timer_lock # c
              /\ lastw.fn = "dc" /\ lastw.ch = lv[c].ch
              /\ BitAt(lastw.val, EnableBit(lv[c].ch)) = 0
        /\ (pc[c] = "irq_cb" /\ TimedOut(c, "disable")) =>
              /\ kona_timer_lock # c
              /\ lastw.fn = "dc"
              /\ BitAt(lastw.val, EnableBit(lv[c].ch)) = 0

\* a set_next_event has returned 0 after both of its waits timed out
C20_Witness ==
    \E c \in Cpus :
        /\ pc[c] = "done" /\ lv[c].op = "sne" /\ lv[c].ret = 0
        /\ lv[c].late = <<"val", "enable">>
        /\ BitAt(lastw.val, EnableBit(lv[c].ch)) = 1

\* ------------------------------------------------------------ channel states
\* Idle: compare disabled; Armed: compare enabled, no match pending;
\* Firing: the match of the channel is pending
Idle(b, ch) == BitAt(hw[b].stcs, EnableBit(ch)) = 0
Armed(b, ch) == BitAt(hw[b].stcs, EnableBit(ch)) = 1
Firing(b, ch) == BitAt(hw[b].stcs, MatchBit(ch)) = 1

\* the same of the state a step leads to
ArmedNext(b, ch) == BitAt(hw'[b].stcs, EnableBit(ch)) = 1
FiringNext(b, ch) == BitAt(hw'[b].stcs, MatchBit(ch)) = 1

\* CPU c makes the status write of kona_timer_set_next_event
SneWrites(c) == pc[c] = "sne_wr" /\ pc'[c] = "sne_wait_en"

\* kona_timer_disable_and_clear returns to kona_timer_interrupt on CPU c
DcReturnsToIrq(c) ==
    lv[c].op = "irq" /\ pc[c] = "dc_unlock" /\ pc'[c] = "irq_cb"

\* kona_timer_interrupt returns on CPU c after its event handler called
\* kona_timer_set_next_event and got 0
IrqReturnsRearmed(c) ==
    pc[c] = "irq_ret" /\ pc'[c] = "done" /\ lv[c].nest /\ lv[c].ret = 0

\* what every step does to the channels
ChannelStep ==
    /\ \A b \in Bases : \A ch \in Chans :
          /\ (Idle(b, ch) /\ ArmedNext(b, ch)) =>
                \E c \in Cpus :
                    SneWrites(c) /\ lv[c].base = b /\ lv[c].ch = ch
          /\ (~Firing(b, ch) /\ FiringNext(b, ch)) =>
                Armed(b, ch) /\ ArmedNext(b, ch) /\ pc' = pc
    /\ \A c \in Cpus :
          /\ DcReturnsToIrq(c) =>
                /\ ~FiringNext(lv[c].base, lv[c].ch)
                /\ ~ArmedNext(lv[c].base, lv[c].ch)
                /\ cbs'[c] = 0
          /\ IrqReturnsRearmed(c) =>
                /\ ArmedNext(lv[c].base, lv[c].ch)
                /\ cbs'[c] = 1

\* C21: a channel's compare gets enabled only by the status write of a
\* set_next_event on that channel; its match gets pending only by the
\* hardware, on an enabled channel; when disable_and_clear returns to the
\* interrupt handler the channel has neither match nor enable and no
\* callback has run yet; and when the handler returns after its callback
\* armed the channel again, the channel is enabled.
C21_ChannelStates == [][ChannelStep]_vars

\* the handler of channel 1 has returned with the channel armed again by
\* its callback
C21_Witness ==
    \E c \in Cpus :
        /\ pc[c] = "done" /\ lv[c].op = "irq" /\ lv[c].ch = 1
        /\ lv[c].ret = IRQ_HANDLED /\ cbs[c] = 1
        /\ Len(opw[c]) = 3 /\ opw[c][3].off = KONA_GPTIMER_STCS_OFFSET
        /\ BitAt(pre[c].stcs, EnableBit(1)) = 0
        /\ Armed(lv[c].base, 1)

\* ------------------------------------------------------------ dispatch claims
\* kona_timer_interrupt runs on CPU c for a channel it resolved, and the
\* channel has no clockevent or its clockevent has no event handler
IrqWithoutConsumer(c) ==
    /\ lv[c].op = "irq" /\ lv[c].ctx = "ok"
    /\ pc[c] \notin {"idle", "oops"}
    /\ ~HasConsumer(c)

\* C22: the interrupt of a channel without a clockevent, or whose clockevent
\* has no event handler, makes no callback; once past disable_and_clear it
\* has taken the lock and written the status register once, with the
\* channel's match bit set (clearing it) and its enable bit clear, the
\* channel's compare is disabled, and it returns IRQ_HANDLED.
C22_DropsWithoutConsumer ==
    \A c \in Cpus :
        IrqWithoutConsumer(c) =>
            /\ cbs[c] = 0
            /\ pc[c] \in {"dc_lock", "dc_rd", "dc_wr", "dc_wait",
                           "dc_unlock", "irq_cb", "irq_ret", "done"}
            /\ pc[c] \in {"irq_cb", "irq_ret", "done"} =>
                  /\ Len(opw[c]) = 2
                  /\ opw[c][1].off = LockLog
                  /\ opw[c][2].off = KONA_GPTIMER_STCS_OFFSET
                  /\ BitAt(opw[c][2].val, MatchBit(lv[c].ch)) = 1
                  /\ BitAt(opw[c][2].val, EnableBit(lv[c].ch)) = 0
                  /\ Idle(lv[c].base, lv[c].ch)
                  /\ ~Firing(lv[c].base, lv[c].ch)
                  /\ kona_timer_lock # c
            /\ pc[c] = "done" => lv[c].ret = IRQ_HANDLED

\* the interrupt of channel 0, which was armed and has no clockevent, has
\* been handled
C22_Witness ==
    \E c \in Cpus :
        /\ IrqWithoutConsumer(c) /\ pc[c] = "done"
        /\ ~timers[lv[c].t].channels[lv[c].i].has_clockevent
        /\ lv[c].ch = 0
        /\ BitAt(pre[c].stcs, EnableBit(0)) = 1
        /\ BitAt(pre[c].stcs, MatchBit(0)) = 1
        /\ Idle(lv[c].base, 0)

\* a handler was called on CPU c with a context that does not resolve
NoContext(c) == lv[c].ctx \in MissingContexts

\* C25: kona_timer_interrupt or kona_timer_shutdown called with no
\* resolvable channel or timer has returned, IRQ_HANDLED or 0, has taken no
\* lock, has made no register access and no callback, and the registers are
\* as they were.
C25_MissingContext ==
    \A c \in Cpus :
        NoContext(c) =>
            /\ pc[c] = "done"
            /\ lv[c].ret = (IF lv[c].op = "irq" THEN IRQ_HANDLED ELSE 0)
            /\ opw[c] = <<>>
            /\ cbs[c] = 0

\* ------------------------------------------------------------ consumer claims
\* the registered timers
Registered == {t \in Slots : t < num_timers}

LocalChannel(k) == timers[local_timer].channels[k]

\* C24: with a local timer registered, the channel of an online CPU has
\* has_clockevent set, and when kona_timer_cpu_stop has returned on CPU k
\* the channel of CPU k has has_clockevent clear and its interrupt is
\* disabled; the channel keeps its index, owner and interrupt.
C24_ConsumerFollowsOnline ==
    local_timer >= 0 =>
        \A k \in Cpus :
            /\ k \in online => LocalChannel(k).has_clockevent
            /\ StopReturned(k) =>
                  /\ ~LocalChannel(k).has_clockevent
                  /\ LocalChannel(k).irq \in irq_off

\* ------------------------------------------------------------ channel count claims
\* kona_timer_init has just returned from a node with more than
\* MAX_NUM_CHANNELS interrupts, which it capped, and no other fault
OverAttempt == ValidAttempt /\ probe.capped

\* the interrupts bound to channels of the timer in slot t
BoundTo(t) == {h \in irqs : h.t = t}

\* every registered timer has 1 to 4 channels, and every bound interrupt
\* belongs to a channel below the channel count of its timer
CountInRange ==
    /\ \A t \in Registered :
          /\ timers[t].num_channels >= 1
          /\ timers[t].num_channels <= MAX_NUM_CHANNELS
    /\ \A h \in irqs :
          /\ h.t \in Registered
          /\ h.i >= 0 /\ h.i < timers[h.t].num_channels
          /\ timers[h.t].channels[h.i].irq = h.irq

\* C26 as stated: the channel count of every registered timer is between 1
\* and 4, only channels below the count have an interrupt bound, and a probe
\* of a node with more than 4 interrupts succeeds with a count of 4 and
\* exactly 4 interrupts bound.
C26_ChannelCountBound ==
    /\ CountInRange
    /\ OverAttempt =>
          /\ probe.ret = 0
          /\ timers[probe.before.num_timers].num_channels = MAX_NUM_CHANNELS
          /\ Cardinality(BoundTo(probe.before.num_timers)) = MAX_NUM_CHANNELS

\* C26 amended: the same, but the 4 interrupts are bound when the node is an
\* event multiplexer; a free-running source with more than 4 interrupts is
\* registered with a count of 4 and no interrupt bound.
C26_ChannelCountBoundByRole ==
    /\ CountInRange
    /\ OverAttempt =>
          LET t == probe.before.num_timers
          IN /\ probe.ret = 0
             /\ num_timers = t + 1
             /\ timers[t].num_channels = MAX_NUM_CHANNELS
             /\ Cardinality(BoundTo(t)) =
                    (IF timers[t].is_gptimer THEN 0 ELSE MAX_NUM_CHANNELS)

\* an event multiplexer with 5 interrupts was registered with 4 channels
C26_Witness ==
    /\ OverAttempt /\ probe.ret = 0
    /\ ~timers[probe.before.num_timers].is_gptimer
    /\ timers[probe.before.num_timers].num_channels = 4
    /\ Cardinality(BoundTo(probe.before.num_timers)) = 4

\* ------------------------------------------------------------ resolution claims
\* slot t holds a timer that kona_timer_init completed, under its own index
SlotResolves(t) ==
    /\ timers[t].ptr = "live"
    /\ timers[t].is_initialized
    /\ timers[t].id = t

\* the channel a bound handler was given as dev_id sits at its own index in
\* its timer, and channel_to_timer of it is that timer
ChannelResolves(h) ==
    LET channel == timers[h.t].channels[h.i]
    IN /\ channel.id = h.i
       /\ channel.timer_id = h.t
       /\ channel.irq = h.irq
       /\ channel_to_timer(channel) = timers[h.t]
       /\ channel_to_timer(channel).ptr = "live"

\* a step takes no timer out of the registry, unbinds no handler, and leaves
\* the identity of every registered timer and the index, owner and
\* interrupt of every bound channel as they were
IdentityKept ==
    /\ num_timers' >= num_timers
    /\ irqs \subseteq irqs'
    /\ \A t \in Registered :
          /\ timers'[t].id = timers[t].id
          /\ timers'[t].ptr = timers[t].ptr
          /\ timers'[t].base = timers[t].base
    /\ \A h \in irqs :
          /\ timers'[h.t].channels[h.i].id = timers[h.t].channels[h.i].id
          /\ timers'[h.t].channels[h.i].timer_id =
                timers[h.t].channels[h.i].timer_id
          /\ timers'[h.t].channels[h.i].irq = timers[h.t].channels[h.i].irq

\* C27: every slot below num_timers holds a live, initialised timer whose id
\* is the slot index; every channel with a bound handler has its position
\* as id and a timer_id that channel_to_timer resolves to the timer that
\* contains it; and no step changes these values.
C27_Resolution ==
    /\ [](/\ \A t \in Registered : SlotResolves(t)
          /\ \A h \in irqs : h.t \in Registered /\ ChannelResolves(h))
    /\ [][IdentityKept]_vars

\* two timers are registered, a free-running source and then an event
\* multiplexer, and a CPU has come online
C27_Witness ==
    /\ num_timers = 2
    /\ \E h \in irqs : h.t = 1 /\ h.i = 2 /\ ChannelResolves(h)
    /\ online # {}
    /\ timers[0].has_clocksource

\* ------------------------------------------------------------ frame claims
\* kona_timer_disable_and_clear has returned on CPU c, to kona_timer_shutdown
\* or to kona_timer_interrupt
DcReturned(c) ==
    \/ pc[c] = "done" /\ lv[c].op = "shutdown" /\ opw[c] # <<>>
    \/ pc[c] = "irq_cb"

\* C28: the status write of disable_and_clear on channel A leaves, for every
\* other channel B, match bit B and enable bit 4+B as they were, and when
\* the call has returned the compare register of B is as at entry.
C28_DcIsolation ==
    /\ lastw.fn = "dc" =>
          \A B \in Chans \ {lastw.ch} :
              /\ BitAt(lastw.after, MatchBit(B)) =
                    BitAt(lastw.before, MatchBit(B))
              /\ BitAt(lastw.after, EnableBit(B)) =
                    BitAt(lastw.before, EnableBit(B))
    /\ \A c \in Cpus :
          DcReturned(c) =>
              \A B \in Chans \ {lv[c].ch} :
                  hw[lv[c].base].stcm[B] = pre[c].stcm[B]

\* CPU c is inside kona_read_sched_clock
InSchedRead(c) == lv[c].op = "sched" /\ pc[c] # "idle"

\* C29: whatever the probe order, every scheduler-clock read samples the
\* register block of a registered slot whose timer was created as the
\* free-running source and registered as clocksource.
C29_SchedReadsSource ==
    \A c \in Cpus : InSchedRead(c) =>
        \E s \in Slots :
            /\ SourceAt(s)
            /\ timers[s].has_clocksource
            /\ s \in clocksrc
            /\ lv[c].base = timers[s].base

\* ------------------------------------------------------------ arming against the running counter
\* counter advances between two steps of set_next_event in one run
MaxArmTicks == 2

\* positions of kona_timer_set_next_event after the low word was sampled
\* and before the compare enable is written
SneSampled ==
    {"gc_hi2", "sne_chk", "sne_lock", "sne_wr_cmp", "sne_wait_val", "sne_rd",
     "sne_wr"}

\* The free-running counter of block b goes on counting while a CPU is
\* between its sample of the low word and its write of the compare enable:
\* nothing in the code stops it, and the spin on kona_timer_lock and the
\* two sync waits take as long as they take.
HwRun(b, D, max) ==
    /\ \E c \in Cpus : /\ lv[c].op = "sne"
                       /\ pc[c] \in SneSampled
                       /\ lv[c].base = b
    /\ ticks < max
    /\ \E d \in D :
         /\ Advance(hw[b], d).hi <= MaxHi
         /\ hw' = [hw EXCEPT ![b] = Advance(hw[b], d)]
    /\ ticks' = ticks + 1
    /\ UNCHANGED <<registry, kona_timer_lock, pc, lv, ghost>>

\* Both CPUs online, each with the clockevent of its channel of the local
\* timer; the counter is anywhere, also just below a wrap of the low word.
InitArm ==
    /\ InitCpus
    /\ timers = BothOnline.timers
    /\ num_timers = BothOnline.num_timers
    /\ local_timer = BothOnline.local_timer
    /\ irqs = BothOnline.irqs
    /\ hp = BothOnline.hp
    /\ clocksrc = BothOnline.clocksrc
    /\ sched = BothOnline.sched
    /\ online = Cpus
    /\ irq_off = {}
    /\ \E lo \in {1000, WordMod - 3} :
         hw = [b \in Bases |-> [ResetBlock EXCEPT !.lo = lo]]
    /\ ticks = 0
    /\ probe = [NoProbe EXCEPT !.hist = FALSE]

NextArm ==
    \/ \E b \in Bases : HwRun(b, {1, MIN_DELTA_TICKS}, MaxArmTicks)
    \/ \E c \in Cpus : \E t \in Slots : \E i \in Chans :
         SetNextEventEntry(c, t, i, MIN_DELTA_TICKS)
    \/ \E c \in Cpus : GcHi1(c)
    \/ \E c \in Cpus : GcLo(c)
    \/ \E c \in Cpus : GcHi2(c)
    \/ \E c \in Cpus : SneChk(c)
    \/ \E c \in Cpus : SneLock(c)
    \/ \E c \in Cpus : SneWrCmp(c)
    \/ \E c \in Cpus : SneWaitVal(c)
    \/ \E c \in Cpus : SneRd(c)
    \/ \E c \in Cpus : SneWr(c)
    \/ \E c \in Cpus : SneWaitEn(c)
    \/ \E c \in Cpus : SneUnlock(c)
    \/ \E c \in Cpus : Return(c)

SpecArm == InitArm /\ [][NextArm]_vars

\* ticks from the running counter of c's timer up to the compare value of
\* c's channel, counting upwards modulo the word
TicksToDeadline(c) ==
    LET blk == hw[lv[c].base]
    IN (blk.stcm[lv[c].ch] + WordMod - blk.lo) % WordMod

\* the step in which CPU c writes the compare enable of its channel
EnableWritten(c) == pc[c] = "sne_wr" /\ pc'[c] = "sne_wait_en"

\* C30: at the moment set_next_event with a delta of at least the minimum
\* writes the compare enable of its channel, the compare value (the sampled
\* low word plus delta) is still ahead of the running counter: between 1
\* and delta ticks away, so the match comes without a wrap of the counter,
\* whatever the other CPU does with the lock meanwhile.
C30_DeadlineAhead ==
    [][\A c \in Cpus :
          EnableWritten(c) /\ lv[c].clc >= MIN_DELTA_TICKS =>
              TicksToDeadline(c)' \in 1..lv[c].clc]_vars

====
